---- MODULE Spec2Model ----
(***************************************************************************)
(* A model of the BungholeAudio driver (BungholeAudioDriver.c): the two    *)
(* lock-free SPSC rings, the realtime IO handler, the two transport        *)
(* workers and the per-device sample clock.                                *)
(*                                                                         *)
(* ring_write and ring_read are modelled at the grain of their shared      *)
(* memory accesses: one step for each atomic load, one step for each frame *)
(* copied by memcpy, one step for the atomic store that publishes.         *)
(* A frame (NUM_CHANNELS interleaved floats) is one value: the frames a    *)
(* producer offers are numbered 1, 2, 3, ... per ring, so that a lost, a   *)
(* duplicated or a reordered frame is visible; 0 is a frame of silence.    *)
(***************************************************************************)
EXTENDS Integers, Sequences, FiniteSets, TLC

(***************************************************************************)
(* Compile-time constants.  RING_CAPACITY (8192) and OPUS_FRAME_SIZE (960) *)
(* are scaled down, keeping RING_CAPACITY > OPUS_FRAME_SIZE and            *)
(* RING_CAPACITY no multiple of OPUS_FRAME_SIZE, so that reads and writes  *)
(* that are split at the end of the storage happen.                        *)
(***************************************************************************)
RING_CAPACITY == 3
OPUS_FRAME_SIZE == 2
SAMPLE_RATE == 48000
CLOCK_PERIOD_FRAMES == 480
\* the codec packs one frame into a packet of at most OPUS_MAX_PACKET bytes
\* (1500, scaled down); a byte holds ByteBase values (256, scaled down), so
\* that the two-byte length of a wire frame is below ByteBase * ByteBase
OPUS_MAX_PACKET == 2
ByteBase == 2
\* the volume range, in decibels
VOLUME_MIN_DB == -96
VOLUME_MAX_DB == 0

kAudioHardwareNoError == 0
\* 'what'
kAudioHardwareUnspecifiedError == 2003329396

(***************************************************************************)
(* Bounds of the model.                                                    *)
(***************************************************************************)
\* the largest ioSize the host passes to DoIOOperation
MaxIoSize == 4
\* frames a producer offers to one ring over a whole run
MaxOffered == 6
\* the host clock is followed for this many half clock periods
MaxHalfPeriods == 5
\* wire frames the far end of the ingress connection starts over a whole run
MaxWireFrames == 2
\* the references the host holds at most
MaxRefs == 2
\* the ring whose counters wrap: head and tail are uint64_t (64 bits,
\* scaled down to CounterBits) and RING_CAPACITY is 2^13 (scaled down to
\* 2^CapacityBits), so that the capacity divides the counters' range
CapacityBits == 2
CounterBits == 4
WrapCapacity == 2^CapacityBits
CounterModulus == 2^CounterBits
\* the frames that ring takes over a whole run: enough for both counters
\* to pass the end of their range
MaxWrapFrames == CounterModulus + WrapCapacity

Rings == {"outputRing", "inputRing"}
IoThreads == {"ioOut", "ioIn"}
Workers == {"egress", "ingress"}
Threads == IoThreads \cup Workers

\* what the host's buffer holds before ReadInput fills it
Stale == -1
Silence == 0

Min(a, b) == IF a < b THEN a ELSE b

Devices == {"output", "input"}
\* the clients of a device the host starts and stops IO for
Clients == {1, 2}
\* mach_timebase_info: numer / denom nanoseconds per tick
Timebases == {<<1, 1>>, <<125, 3>>, <<3, 7>>}

NoZts == [sampleTime |-> 0, hostTime |-> 0, seed |-> 0]

(***************************************************************************)
(* Float32 values of the volume controls.  A scalar is held in millionths  *)
(* (One is 1.0f), a decibel value in whole decibels; NaN is the Float32    *)
(* not-a-number, which every ordered comparison answers with false.        *)
(***************************************************************************)
One == 1000000
NaN == -2000000000
FLess(a, b) == a # NaN /\ b # NaN /\ a < b
FLessEq(a, b) == a # NaN /\ b # NaN /\ a <= b

NoWire == [count |-> 0, len |-> 0, pcm |-> <<>>, err |-> -1]

\* the far end of a connection: st is "none" (no connection), "idle",
\* "hdr" / "payload" (inside framed_write, n bytes of the part written) or
\* "closed"
NoPeer == [st |-> "none", len |-> 0, hdr |-> <<>>, data |-> <<>>, n |-> 0]
IdlePeer == [NoPeer EXCEPT !.st = "idle"]
\* framed_read: hdr the header bytes read, len the length decoded, n the
\* bytes of the current part read, consumed the bytes taken from the stream,
\* res "none" | "run" | "ok" | "badlen" | "ioerr"; head0 and fed0 are the
\* ring's head and the packets decoded when the call began
NoRead == [hdr |-> <<>>, len |-> 0, n |-> 0, consumed |-> 0, res |-> "none",
           head0 |-> 0, fed0 |-> 0]
NoFrame == [len |-> 0, data |-> <<>>, want |-> <<>>, consumed |-> 0]
NoPacket == [count |-> 0, len |-> 0, data |-> <<>>]

NoIo == [fn |-> "none", id |-> 0, op |-> "none", will |-> FALSE,
         isInput |-> FALSE, status |-> 0]
NoDrop == [count |-> 0, pcm |-> <<>>]
NoInit == [status |-> -1, encErr |-> "none", decErr |-> "none"]
NoGain == [vol |-> 0, mute |-> 0, gain |-> 0]
\* ring_init, and no ring call in progress
NoWrapCall == [pc |-> "idle", h |-> 0, t |-> 0, count |-> 0]
\* no ring_available call made yet: who is the calling thread, h its
\* local, ret what it returned, seen the values head - tail has had since
\* the call began
NoAvailCall == [pc |-> "idle", who |-> "none", h |-> 0, ret |-> 0,
                seen |-> {}]
NoWrap == [samples |-> [s \in 0..(WrapCapacity - 1) |-> 0],
           head |-> 0, tail |-> 0, written |-> 0, read |-> 0, got |-> <<>>,
           w |-> NoWrapCall, r |-> NoWrapCall, a |-> NoAvailCall]
NoSet == [sel |-> "none", val |-> 0]
NoGet == [dev |-> "none", val |-> 0]

VARIABLES
    samples,    \* samples[rb][slot]: the ring's storage, one frame per slot
    head,       \* head[rb]: producer write position (frames)
    tail,       \* tail[rb]: consumer read position (frames)
    running,    \* gDriver->running
    driver,     \* "created" | "ready" | "failed": outcome of driver_Initialize
    pc,         \* pc[th]: where each thread is
    call,       \* call[th]: the locals of the thread's ring_write / ring_read
    buf,        \* buf[th]: ioMainBuffer of an IO thread, pcm[] of a worker
    acc,        \* egress worker: frames accumulated in pcm
    fd,         \* fd[w]: "none" | "open", the worker's socket
    offered,    \* offered[rb]: frames the producer has offered so far
    accepted,   \* accepted[rb]: history of the frames ring_write accepted
    readOut,    \* readOut[rb]: history of the frames ring_read returned
    now,        \* mach_absolute_time(): the host clock, in ticks
    timebase,   \* <<numer, denom>>: what mach_timebase_info reports on this
                \* machine and driver_Initialize stores in gDriver->timebase
    ticksAtZero,\* outputHostTicksAtZero / inputHostTicksAtZero, per device
    sampleTime, \* outputSampleTime / inputSampleTime, per device
    ioRunning,  \* outputIORunning / inputIORunning, per device
    ioClients,  \* per device: the clients that called StartIO and not StopIO
    zts,        \* per device: what the last GetZeroTimeStamp returned
    runSince,   \* per device: IO has run without a stop since that call
    lastOp,     \* the plug-in call the host made last
    volume,     \* outputVolume / inputVolume, per device (a Float32)
    mute,       \* outputMute / inputMute, per device
    lastSet,    \* per device: the last SetPropertyData on its volume control
                \* that stored a value
    lastGet,    \* what the last GetPropertyData of a scalar value returned
    nbytes,     \* egress worker: what opus_encode returned for the frame
    sent,       \* egress worker: the wire frames written so far (count) and
                \* the last of them: its length, the PCM frames it encodes,
                \* and errAt when it was written
    dropped,    \* egress worker: the accumulators it gave up because
                \* opus_encode failed (count), and the PCM frames of the last
    errAt,      \* egress worker: the number of frames it had taken from the
                \* ring when framed_write last failed, -1 if it never did
    stream,     \* ingress connection: the bytes written by the far end and
                \* not yet read by the worker
    peer,       \* ingress connection: the far end and its framed_write
    wireCount,  \* wire frames the far end has started over the whole run
    inFlight,   \* the frames passed to framed_write on this connection that
                \* framed_read has not returned yet, oldest first
    rd,         \* ingress worker: the locals of its framed_read
    opusBuf,    \* ingress worker: opus_buf[OPUS_MAX_PACKET]
    pktLen,     \* ingress worker: pkt_len
    lastFrame,  \* what the last framed_read that succeeded returned, and the
                \* frame that was due
    fed,        \* packets passed to opus_decode (count) and the last of them
    refCount,   \* gDriver->refCount
    event,      \* event[w]: "error" since the worker's framed_read or
                \* framed_write last failed, "attempt" since its last call
                \* of vsock_connect, whichever came last
    opusEncoder,\* gDriver->opusEncoder: "null" | "alloc"
    opusDecoder,\* gDriver->opusDecoder: "null" | "alloc"
    initResult, \* what driver_Initialize returned (status, -1 before it is
                \* called) and what the two codec constructors reported
    lastIo,     \* the last driver_WillDoIOOperation call and what it put
                \* in *outWill and *outIsInput, or the last
                \* driver_DoIOOperation call that took neither branch
    gainLoc,    \* gainLoc[w]: the worker's locals vol, mute and gain
    scaled,     \* scaled[w]: for each sample the worker's conversion loop
                \* has done for the codec frame in hand, the gain it used
    wrap        \* a ring whose head and tail are kept in WrapBits bits,
                \* with the locals of its producer's and consumer's calls

ringVars == <<samples, head, tail>>
histVars == <<offered, accepted, readOut>>
clockVars == <<now, timebase, ticksAtZero, sampleTime, ioRunning, ioClients,
               zts, runSince, lastOp>>
volVars == <<volume, mute, lastSet, lastGet>>
\* the state that the rings, the IO handler, the workers' loops and the
\* clock neither read nor write
egressVars == <<nbytes, sent, errAt, dropped>>
wireVars == <<stream, peer, wireCount, inFlight, rd, opusBuf, pktLen,
              lastFrame, fed>>
lifeVars == <<refCount, event>>
initVars == <<opusEncoder, opusDecoder, initResult>>
gainVars == <<gainLoc, scaled>>
auxVarsButWrap == <<volVars, egressVars, wireVars, lifeVars, initVars,
                    lastIo, gainVars>>
auxVars == <<auxVarsButWrap, wrap>>
vars == <<samples, head, tail, running, driver, pc, call, buf, acc, fd,
          offered, accepted, readOut, now, timebase, ticksAtZero, sampleTime,
          ioRunning, ioClients, zts, runSince, lastOp,
          volume, mute, lastSet, lastGet, nbytes, sent, errAt, dropped,
          stream, peer, wireCount, inFlight, rd, opusBuf, pktLen, lastFrame,
          fed,
          refCount, event, opusEncoder, opusDecoder, initResult, lastIo,
          gainLoc, scaled, wrap>>

\* call[th]: rb, req, off are the arguments of the ring call (the ring, the
\* frame count, the frame offset into buf[th]); h, t, count are its locals,
\* copied the frames memcpy has moved, ret its return value; status is what
\* the IO handler returned (-1 while it runs).  Bookkeeping: pos0 is the
\* caller's own index (head for a write, tail for a read) when the call was
\* made, steps the steps the handler has taken, calls the ring calls it has
\* entered.
NoCall == [rb |-> "outputRing", h |-> 0, t |-> 0, req |-> 0, count |-> 0,
           off |-> 0, copied |-> 0, ret |-> 0, status |-> 0,
           pos0 |-> 0, steps |-> 0, calls |-> 0]

\* n frames numbered from+1 .. from+n
Fresh(from, n) == [i \in 1..n |-> from + i]

(***************************************************************************)
(* ring_init and the driver state after BungholeAudio_Create (calloc).     *)
(***************************************************************************)
Init ==
    /\ samples = [rb \in Rings |-> [s \in 0..(RING_CAPACITY - 1) |-> Silence]]
    /\ head = [rb \in Rings |-> 0]
    /\ tail = [rb \in Rings |-> 0]
    /\ running = 0
    /\ driver = "created"
    /\ pc = [th \in Threads |-> "none"]
    /\ call = [th \in Threads |-> NoCall]
    /\ buf = [th \in Threads |->
                IF th \in Workers THEN [i \in 1..OPUS_FRAME_SIZE |-> Silence]
                ELSE <<>>]
    /\ acc = 0
    /\ fd = [w \in Workers |-> "none"]
    /\ offered = [rb \in Rings |-> 0]
    /\ accepted = [rb \in Rings |-> <<>>]
    /\ readOut = [rb \in Rings |-> <<>>]
    /\ now = 0
    /\ timebase \in Timebases
    /\ ticksAtZero = [d \in Devices |-> 0]
    /\ sampleTime = [d \in Devices |-> 0]
    /\ ioRunning = [d \in Devices |-> 0]
    /\ ioClients = [d \in Devices |-> {}]
    /\ zts = [d \in Devices |-> NoZts]
    /\ runSince = [d \in Devices |-> FALSE]
    /\ lastOp = [op |-> "Create", dev |-> "none"]
    /\ volume = [d \in Devices |-> 0]
    /\ mute = [d \in Devices |-> 0]
    /\ lastSet = [d \in Devices |-> NoSet]
    /\ lastGet = NoGet
    /\ nbytes = 0
    /\ sent = NoWire
    /\ errAt = -1
    /\ dropped = NoDrop
    /\ stream = <<>>
    /\ peer = NoPeer
    /\ wireCount = 0
    /\ inFlight = <<>>
    /\ rd = NoRead
    /\ opusBuf = [i \in 1..OPUS_MAX_PACKET |-> 0]
    /\ pktLen = 0
    /\ lastFrame = NoFrame
    /\ fed = NoPacket
    /\ refCount = 1
    /\ event = [w \in Workers |-> "none"]
    /\ opusEncoder = "null"
    /\ opusDecoder = "null"
    /\ initResult = NoInit
    /\ lastIo = NoIo
    /\ gainLoc = [w \in Workers |-> NoGain]
    /\ scaled = [w \in Workers |-> <<>>]
    /\ wrap = NoWrap

\* a driver_Initialize that leaves the devices muted
InitialMuteOn(dev) == 1

\* atomic_store(&gDriver->outputMute, 0); atomic_store(&gDriver->inputMute, 0);
InitialMute(dev) == 0

(***************************************************************************)
(* driver_Initialize: rings initialised, codecs created, workers started.  *)
(*                                                                         *)
(* The output path (the output device's IO thread, outputRing, the egress  *)
(* worker) and the input path (the ingress worker, inputRing, the input    *)
(* device's IO thread) share no variable but the running flag, which both  *)
(* only read: a behaviour of the driver is an interleaving of a behaviour  *)
(* of each path.  A run of the model follows the threads of one path, the  *)
(* other path's threads stay at "none".                                    *)
(***************************************************************************)
Paths == {{"ioOut", "egress"}, {"ingress", "ioIn"}}

\* a driver_Initialize that leaves the encoder behind when the decoder fails
EncoderKept(enc) == enc

\* opus_encoder_destroy(gDriver->opusEncoder); gDriver->opusEncoder = NULL;
EncoderDestroyed(enc) == "null"

Initialize ==
    /\ driver = "created"
    /\ \E encOk \in BOOLEAN, decOk \in BOOLEAN :
        IF ~encOk
        THEN \* opus_encoder_create fails (it returns NULL): return at once
             /\ driver' = "failed"
             /\ opusEncoder' = "null"
             /\ initResult' = [status |-> kAudioHardwareUnspecifiedError,
                               encErr |-> "fail", decErr |-> "none"]
             /\ UNCHANGED <<running, pc, opusDecoder>>
        ELSE IF ~decOk
        THEN \* opus_decoder_create fails: the encoder is destroyed
             /\ driver' = "failed"
             /\ opusDecoder' = "null"
             /\ opusEncoder' = EncoderDestroyed("alloc")
             /\ initResult' = [status |-> kAudioHardwareUnspecifiedError,
                               encErr |-> "ok", decErr |-> "fail"]
             /\ UNCHANGED <<running, pc>>
        ELSE /\ driver' = "ready"
             /\ opusEncoder' = "alloc"
             /\ opusDecoder' = "alloc"
             /\ initResult' = [status |-> kAudioHardwareNoError,
                               encErr |-> "ok", decErr |-> "ok"]
             /\ running' = 1
             /\ \E path \in Paths :
                  pc' = [th \in Threads |->
                           IF th \notin path THEN "none"
                           ELSE IF th = "egress" THEN "o_outer"
                           ELSE IF th = "ingress" THEN "i_outer" ELSE "idle"]
    /\ samples' = [rb \in Rings |-> [s \in 0..(RING_CAPACITY - 1) |-> Silence]]
    /\ head' = [rb \in Rings |-> 0]
    /\ tail' = [rb \in Rings |-> 0]
    /\ ioRunning' = [d \in Devices |-> 0]
    /\ ticksAtZero' = [d \in Devices |-> 0]
    /\ sampleTime' = [d \in Devices |-> 0]
    /\ timebase' = timebase
    /\ lastOp' = [op |-> "Initialize", dev |-> "none"]
    /\ volume' = [d \in Devices |-> One]
    /\ mute' = [d \in Devices |-> InitialMute(d)]
    /\ UNCHANGED <<call, buf, acc, fd, histVars, now, ioClients, zts, runSince,
                   lastSet, lastGet, egressVars, lifeVars, wireVars, lastIo,
                   gainVars, wrap>>

(***************************************************************************)
(* ring_write, lines 113-129.                                              *)
(***************************************************************************)
\* a ring that keeps one slot empty
RingFreeKeepOne(h, t) == RING_CAPACITY - 1 - (h - t)

\* free = RING_CAPACITY - (h - t)
RingFree(h, t) == RING_CAPACITY - (h - t)

\* ring_write without the cap to the free space
WriteCountUncapped(h, t, count) == count

\* if (count > free) count = free;
WriteCount(h, t, count) == Min(count, RingFree(h, t))

\* the slot the i-th frame (i = 0 .. count-1) of one ring_write goes to:
\* the first memcpy covers `first` frames from idx = h % RING_CAPACITY, the
\* second the rest from slot 0
WriteSlot(h, count, i) ==
    LET idx == h % RING_CAPACITY
        first == Min(RING_CAPACITY - idx, count)
    IN IF i < first THEN idx + i ELSE i - first

\* an ingress worker that calls ring_write again while the ring is full
IngressAfterWriteRetry(th) ==
    IF head[call[th].rb] - tail[call[th].rb] >= RING_CAPACITY
    THEN "w_load_head" ELSE "i_inner"

\* ring_write(&drv->inputRing, pcm, (uint64_t)nsamples); its value unused,
\* then the end of the inner loop's body
IngressAfterWrite(th) == "i_inner"

\* where a thread continues when its ring call returns
AfterCall(th) ==
    CASE th = "ioOut" -> "io_write_ret"
      [] th = "ioIn" -> "io_read_ret"
      [] th = "egress" -> "o_got"
      [] th = "ingress" -> IngressAfterWrite(th)

Step(th) == [call EXCEPT ![th].steps = @ + 1]

\* uint64_t h = atomic_load_explicit(&rb->head, memory_order_relaxed);
RingWriteLoadHead(th) ==
    /\ pc[th] = "w_load_head"
    /\ call' = [Step(th) EXCEPT ![th].h = head[call[th].rb],
                                ![th].calls = @ + 1]
    /\ pc' = [pc EXCEPT ![th] = "w_load_tail"]
    /\ UNCHANGED <<ringVars, running, driver, clockVars, buf, acc, fd, histVars>>
    /\ UNCHANGED auxVars

\* a ring_write that waits for the consumer to make room
RingWriteLoadTailWait(th) ==
    /\ pc[th] = "w_load_tail"
    /\ call[th].req > 0 => RingFree(call[th].h, tail[call[th].rb]) > 0
    /\ LET t == tail[call[th].rb]
           n == WriteCount(call[th].h, t, call[th].req)
       IN /\ call' = [Step(th) EXCEPT ![th].t = t, ![th].count = n,
                                      ![th].copied = 0, ![th].ret = 0]
          /\ pc' = [pc EXCEPT ![th] = IF n = 0 THEN AfterCall(th) ELSE "w_copy"]
    /\ UNCHANGED <<ringVars, running, driver, clockVars, buf, acc, fd, histVars>>
    /\ UNCHANGED auxVars

\* a ring_write that publishes the new head before it copies
RingWriteLoadTailPublish(th) ==
    /\ pc[th] = "w_load_tail"
    /\ LET t == tail[call[th].rb]
           n == WriteCount(call[th].h, t, call[th].req)
       IN /\ call' = [Step(th) EXCEPT ![th].t = t, ![th].count = n,
                                      ![th].copied = 0, ![th].ret = 0]
          /\ head' = [head EXCEPT ![call[th].rb] = call[th].h + n]
          /\ pc' = [pc EXCEPT ![th] = IF n = 0 THEN AfterCall(th) ELSE "w_copy"]
    /\ UNCHANGED <<samples, tail, running, driver, clockVars, buf, acc, fd, histVars>>
    /\ UNCHANGED auxVars

\* uint64_t t = atomic_load(&rb->tail, acquire); count capped; early return
RingWriteLoadTail(th) ==
    /\ pc[th] = "w_load_tail"
    /\ LET t == tail[call[th].rb]
           n == WriteCount(call[th].h, t, call[th].req)
       IN /\ call' = [Step(th) EXCEPT ![th].t = t, ![th].count = n,
                                      ![th].copied = 0, ![th].ret = 0]
          /\ pc' = [pc EXCEPT ![th] = IF n = 0 THEN AfterCall(th) ELSE "w_copy"]
    /\ UNCHANGED <<ringVars, running, driver, clockVars, buf, acc, fd, histVars>>
    /\ UNCHANGED auxVars

\* the two memcpy calls, one frame per step
RingWriteCopy(th) ==
    /\ pc[th] = "w_copy"
    /\ LET c == call[th]
           slot == WriteSlot(c.h, c.count, c.copied)
       IN /\ samples' = [samples EXCEPT ![c.rb][slot] = buf[th][c.off + c.copied + 1]]
          /\ call' = [Step(th) EXCEPT ![th].copied = @ + 1]
          /\ pc' = [pc EXCEPT ![th] =
                      IF c.copied + 1 = c.count THEN "w_store" ELSE "w_copy"]
    /\ UNCHANGED <<head, tail, running, driver, clockVars, buf, acc, fd, histVars>>
    /\ UNCHANGED auxVars

\* atomic_store_explicit(&rb->head, h + count, memory_order_release)
NewHead(h, count) == h + count

RingWriteStore(th) ==
    /\ pc[th] = "w_store"
    /\ LET c == call[th]
       IN /\ head' = [head EXCEPT ![c.rb] = NewHead(c.h, c.count)]
          /\ call' = [Step(th) EXCEPT ![th].ret = c.count]
          /\ accepted' = [accepted EXCEPT ![c.rb] =
                            @ \o SubSeq(buf[th], c.off + 1, c.off + c.count)]
          /\ pc' = [pc EXCEPT ![th] = AfterCall(th)]
    /\ UNCHANGED <<samples, tail, running, driver, clockVars, buf, acc, fd, offered, readOut>>
    /\ UNCHANGED auxVars

(***************************************************************************)
(* ring_read, lines 132-148.                                               *)
(***************************************************************************)
\* a ring_read that leaves the newest frame behind
RingAvailKeepOne(h, t) == IF h > t THEN h - t - 1 ELSE 0

\* avail = h - t
RingAvail(h, t) == h - t

\* if (count > avail) count = avail;
ReadCount(h, t, count) == Min(count, RingAvail(h, t))

\* ring_read starting one slot late
ReadSlotOffByOne(t, count, i) == (t + 1 + i) % RING_CAPACITY

\* the slot the i-th frame of one ring_read comes from: idx = t %
\* RING_CAPACITY, first memcpy `first` frames, the second from slot 0
ReadSlot(t, count, i) ==
    LET idx == t % RING_CAPACITY
        first == Min(RING_CAPACITY - idx, count)
    IN IF i < first THEN idx + i ELSE i - first

\* uint64_t h = atomic_load_explicit(&rb->head, memory_order_acquire);
RingReadLoadHead(th) ==
    /\ pc[th] = "r_load_head"
    /\ call' = [Step(th) EXCEPT ![th].h = head[call[th].rb],
                                ![th].calls = @ + 1]
    /\ pc' = [pc EXCEPT ![th] = "r_load_tail"]
    /\ UNCHANGED <<ringVars, running, driver, clockVars, buf, acc, fd, histVars>>
    /\ UNCHANGED auxVars

\* a ring_read that releases its frames before it copies them out
RingReadLoadTailRelease(th) ==
    /\ pc[th] = "r_load_tail"
    /\ LET t == tail[call[th].rb]
           n == ReadCount(call[th].h, t, call[th].req)
       IN /\ call' = [Step(th) EXCEPT ![th].t = t, ![th].count = n,
                                      ![th].copied = 0, ![th].ret = 0]
          /\ tail' = [tail EXCEPT ![call[th].rb] = t + n]
          /\ pc' = [pc EXCEPT ![th] = IF n = 0 THEN AfterCall(th) ELSE "r_copy"]
    /\ UNCHANGED <<samples, head, running, driver, clockVars, buf, acc, fd, histVars>>
    /\ UNCHANGED auxVars

\* uint64_t t = atomic_load(&rb->tail, relaxed); count capped; early return
RingReadLoadTail(th) ==
    /\ pc[th] = "r_load_tail"
    /\ LET t == tail[call[th].rb]
           n == ReadCount(call[th].h, t, call[th].req)
       IN /\ call' = [Step(th) EXCEPT ![th].t = t, ![th].count = n,
                                      ![th].copied = 0, ![th].ret = 0]
          /\ pc' = [pc EXCEPT ![th] = IF n = 0 THEN AfterCall(th) ELSE "r_copy"]
    /\ UNCHANGED <<ringVars, running, driver, clockVars, buf, acc, fd, histVars>>
    /\ UNCHANGED auxVars

\* the two memcpy calls, one frame per step
RingReadCopy(th) ==
    /\ pc[th] = "r_copy"
    /\ LET c == call[th]
           slot == ReadSlot(c.t, c.count, c.copied)
       IN /\ buf' = [buf EXCEPT ![th][c.off + c.copied + 1] = samples[c.rb][slot]]
          /\ call' = [Step(th) EXCEPT ![th].copied = @ + 1]
          /\ pc' = [pc EXCEPT ![th] =
                      IF c.copied + 1 = c.count THEN "r_store" ELSE "r_copy"]
    /\ UNCHANGED <<ringVars, running, driver, clockVars, acc, fd, histVars>>
    /\ UNCHANGED auxVars

\* atomic_store_explicit(&rb->tail, t + count, memory_order_release)
NewTail(t, count) == t + count

RingReadStore(th) ==
    /\ pc[th] = "r_store"
    /\ LET c == call[th]
       IN /\ tail' = [tail EXCEPT ![c.rb] = NewTail(c.t, c.count)]
          /\ call' = [Step(th) EXCEPT ![th].ret = c.count]
          /\ readOut' = [readOut EXCEPT ![c.rb] =
                           @ \o SubSeq(buf[th], c.off + 1, c.off + c.count)]
          /\ pc' = [pc EXCEPT ![th] = AfterCall(th)]
    /\ UNCHANGED <<samples, head, running, driver, clockVars, buf, acc, fd, offered, accepted>>
    /\ UNCHANGED auxVars

(***************************************************************************)
(* driver_DoIOOperation, lines 1394-1412: the realtime IO handler.         *)
(***************************************************************************)
\* the call frame of a fresh ring call on rb for `req` frames at buffer
\* offset `off`; `steps` counts the steps the calling handler has taken
NewCall(rb, req, off, pos) ==
    [NoCall EXCEPT !.rb = rb, !.req = req, !.off = off, !.status = -1,
                   !.pos0 = pos, !.steps = 1]

\* output device, WriteMix: ring_write(&gDriver->outputRing, buf, ioSize)
DoIOWriteMix ==
    /\ driver = "ready"
    /\ pc["ioOut"] = "idle"
    /\ \E ioSize \in 0..MaxIoSize :
        /\ offered["outputRing"] + ioSize <= MaxOffered
        /\ buf' = [buf EXCEPT !["ioOut"] = Fresh(offered["outputRing"], ioSize)]
        /\ offered' = [offered EXCEPT !["outputRing"] = @ + ioSize]
        /\ call' = [call EXCEPT !["ioOut"] = NewCall("outputRing", ioSize, 0, head["outputRing"])]
    /\ pc' = [pc EXCEPT !["ioOut"] = "w_load_head"]
    /\ UNCHANGED <<ringVars, running, driver, clockVars, acc, fd, accepted, readOut>>
    /\ UNCHANGED auxVars

\* a handler that writes the frames that did not fit again
DoIOWriteMixRetry ==
    /\ pc["ioOut"] = "io_write_ret"
    /\ LET c == call["ioOut"]
       IN IF c.ret < c.req
          THEN /\ call' = [Step("ioOut") EXCEPT !["ioOut"].req = c.req - c.ret,
                                                !["ioOut"].off = c.off + c.ret]
               /\ pc' = [pc EXCEPT !["ioOut"] = "w_load_head"]
          ELSE /\ call' = [Step("ioOut") EXCEPT
                            !["ioOut"].status = kAudioHardwareNoError]
               /\ pc' = [pc EXCEPT !["ioOut"] = "idle"]
    /\ UNCHANGED <<ringVars, running, driver, clockVars, buf, acc, fd, histVars>>
    /\ UNCHANGED auxVars

\* the value ring_write returned is not looked at: return kAudioHardwareNoError
DoIOWriteMixReturn ==
    /\ pc["ioOut"] = "io_write_ret"
    /\ call' = [Step("ioOut") EXCEPT !["ioOut"].status = kAudioHardwareNoError]
    /\ pc' = [pc EXCEPT !["ioOut"] = "idle"]
    /\ UNCHANGED <<ringVars, running, driver, clockVars, buf, acc, fd, histVars>>
    /\ UNCHANGED auxVars

\* input device, ReadInput: got = ring_read(&gDriver->inputRing, buf, ioSize)
DoIOReadInput ==
    /\ driver = "ready"
    /\ pc["ioIn"] = "idle"
    /\ \E ioSize \in 0..MaxIoSize :
        /\ buf' = [buf EXCEPT !["ioIn"] = [i \in 1..ioSize |-> Stale]]
        /\ call' = [call EXCEPT !["ioIn"] = NewCall("inputRing", ioSize, 0, tail["inputRing"])]
    /\ pc' = [pc EXCEPT !["ioIn"] = "r_load_head"]
    /\ UNCHANGED <<ringVars, running, driver, clockVars, acc, fd, histVars>>
    /\ UNCHANGED auxVars

\* an underrun that leaves the host's buffer as it was
ZeroFillNothing(b, got, ioSize) == b

\* if (got < ioSize) memset(buf + got * NUM_CHANNELS, 0, ...)
ZeroFill(b, got, ioSize) ==
    [i \in 1..ioSize |-> IF i > got THEN Silence ELSE b[i]]

DoIOReadInputReturn ==
    /\ pc["ioIn"] = "io_read_ret"
    /\ buf' = [buf EXCEPT !["ioIn"] =
                 ZeroFill(@, call["ioIn"].ret, call["ioIn"].req)]
    /\ call' = [Step("ioIn") EXCEPT !["ioIn"].status = kAudioHardwareNoError]
    /\ pc' = [pc EXCEPT !["ioIn"] = "idle"]
    /\ UNCHANGED <<ringVars, running, driver, clockVars, acc, fd, histVars>>
    /\ UNCHANGED auxVars

(***************************************************************************)
(* output_transport_thread, lines 284-351.                                 *)
(***************************************************************************)
\* a worker that returns when its connection fails
AfterBreakReturn(w) == IF w = "egress" THEN "o_exit" ELSE "i_exit"

\* a worker that goes round its inner loop again when its connection fails
AfterBreakContinue(w) == IF w = "egress" THEN "o_inner" ELSE "i_inner"

\* break: out of the inner loop, to the close(fd) after it
AfterBreak(w) == IF w = "egress" THEN "o_close" ELSE "i_close"

\* while (running) { fd = vsock_connect(VSOCK_PORT_OUT); if (fd < 0) sleep }
\* a vsock_connect that returns -1 without closing the socket it made
SocketLeaked(s) == s

\* close(fd); return -1; when connect() fails
SocketAfterFailedConnect(s) == "none"

\* vsock_connect, lines 199-215: socket() fails, or connect() fails and the
\* socket is closed, or the connected descriptor is returned; `desc` is the
\* descriptor the call leaves open
VsockOutcomes == {"socket_fails", "connect_fails", "connected"}
vsock_connect(outcome) ==
    IF outcome = "socket_fails" THEN [ret |-> -1, desc |-> "none"]
    ELSE IF outcome = "connect_fails"
         THEN [ret |-> -1, desc |-> SocketAfterFailedConnect("socket")]
         ELSE [ret |-> 0, desc |-> "open"]

OutConnect ==
    /\ pc["egress"] = "o_outer"
    /\ IF running = 0
       THEN /\ pc' = [pc EXCEPT !["egress"] = "o_exit"]
            /\ UNCHANGED <<fd, event>>
       ELSE /\ event' = [event EXCEPT !["egress"] = "attempt"]
            /\ \E outcome \in VsockOutcomes :
                 LET r == vsock_connect(outcome)
                 IN /\ fd' = [fd EXCEPT !["egress"] = r.desc]
                    /\ pc' = [pc EXCEPT !["egress"] =
                                IF r.ret < 0 THEN "o_backoff" ELSE "o_inner"]
    /\ UNCHANGED <<ringVars, running, driver, clockVars, call, buf, acc, histVars>>
    /\ UNCHANGED <<volVars, egressVars, wireVars, refCount, initVars, lastIo, gainVars, wrap>>

\* a worker that empties the ring while it waits to connect
OutBackoffFlush ==
    /\ pc["egress"] = "o_backoff"
    /\ tail' = [tail EXCEPT !["outputRing"] = head["outputRing"]]
    /\ pc' = [pc EXCEPT !["egress"] = "o_outer"]
    /\ UNCHANGED <<samples, head, running, driver, clockVars, call, buf, acc,
                   fd, histVars>>
    /\ UNCHANGED auxVars

\* sleep(1) is over
OutBackoff ==
    /\ pc["egress"] = "o_backoff"
    /\ pc' = [pc EXCEPT !["egress"] = "o_outer"]
    /\ UNCHANGED <<ringVars, running, driver, clockVars, call, buf, acc, fd, histVars>>
    /\ UNCHANGED auxVars

\* while (running) { need = OPUS_FRAME_SIZE - acc; ring_read(.., pcm + acc, need)
OutDrain ==
    /\ pc["egress"] = "o_inner"
    /\ IF running = 0
       THEN /\ pc' = [pc EXCEPT !["egress"] = "o_close"]
            /\ UNCHANGED call
       ELSE /\ call' = [call EXCEPT !["egress"] =
                          NewCall("outputRing", OPUS_FRAME_SIZE - acc, acc,
                                  tail["outputRing"])]
            /\ pc' = [pc EXCEPT !["egress"] = "r_load_head"]
    /\ UNCHANGED <<ringVars, running, driver, clockVars, buf, acc, fd, histVars>>
    /\ UNCHANGED auxVars

\* a worker that encodes as soon as it holds any frame
EncodeReadyEarly(n) == n >= 1

\* !(acc < OPUS_FRAME_SIZE)
EncodeReady(n) == n >= OPUS_FRAME_SIZE

\* acc += got; if (acc < OPUS_FRAME_SIZE) { usleep(2000); continue; }
OutAccumulate ==
    /\ pc["egress"] = "o_got"
    /\ acc' = acc + call["egress"].ret
    /\ pc' = [pc EXCEPT !["egress"] =
                IF EncodeReady(acc') THEN "o_encode" ELSE "o_inner"]
    /\ UNCHANGED <<ringVars, running, driver, clockVars, call, buf, fd, histVars>>
    /\ UNCHANGED auxVars

\* what opus_encode(enc, pcm16, OPUS_FRAME_SIZE, opus_buf, maxBytes) may
\* return: a negative error code, or the length of the packet it wrote, which
\* is at least the one byte every packet starts with and at most maxBytes
EncoderResults(maxBytes) == {-1} \cup (1..maxBytes)

\* a worker that sends whatever the encoder returned
EncodeFailedNever(n) == FALSE

\* if (nbytes < 0)
EncodeFailed(n) == n < 0

\* a worker that keeps its accumulator when the encoder fails
AccAfterDropKept(a) == a

\* acc = 0; on the encoder's error path
AccAfterDrop(a) == 0

\* gain, conversion, opus_encode(.., OPUS_MAX_PACKET);
\* if (nbytes < 0) { acc = 0; continue; }
OutEncodeFrom(at) ==
    /\ pc["egress"] = at
    /\ \E n \in EncoderResults(OPUS_MAX_PACKET) :
        IF EncodeFailed(n)
        THEN /\ acc' = AccAfterDrop(acc)
             /\ dropped' = [count |-> dropped.count + 1, pcm |-> buf["egress"]]
             /\ pc' = [pc EXCEPT !["egress"] = "o_inner"]
             /\ UNCHANGED nbytes
        ELSE /\ nbytes' = n
             /\ pc' = [pc EXCEPT !["egress"] = "o_send"]
             /\ UNCHANGED <<acc, dropped>>
    /\ UNCHANGED <<ringVars, running, driver, clockVars, call, buf, fd, histVars>>
    /\ UNCHANGED <<volVars, lifeVars, initVars, lastIo, gainVars, wrap, sent, errAt, wireVars>>

\* the conversion loop and the call of opus_encode as one step
OutEncode == OutEncodeFrom("o_encode")

\* a worker that empties its accumulator when the write fails
AccAfterBreakReset(a) == 0

\* break; out of the inner loop, acc and pcm as they are
AccAfterBreak(a) == a

\* a worker that keeps its accumulator after a wire frame is written
AccAfterWriteKept(a) == a

\* acc = 0; after the wire frame is written
AccAfterWrite(a) == 0

\* (uint16_t)nbytes
U16(n) == n % (ByteBase * ByteBase)

\* if (framed_write(fd, opus_buf, (uint16_t)nbytes) < 0) break; acc = 0;
\* framed_write either writes the whole wire frame or fails part-way
OutSend ==
    /\ pc["egress"] = "o_send"
    /\ \E written \in BOOLEAN :
        IF written
        THEN /\ sent' = [count |-> sent.count + 1, len |-> U16(nbytes),
                         pcm |-> buf["egress"], err |-> errAt]
             /\ acc' = AccAfterWrite(acc)
             /\ pc' = [pc EXCEPT !["egress"] = "o_inner"]
             /\ UNCHANGED <<errAt, event>>
        ELSE /\ errAt' = Len(readOut["outputRing"])
             /\ event' = [event EXCEPT !["egress"] = "error"]
             /\ pc' = [pc EXCEPT !["egress"] = AfterBreak("egress")]
             /\ acc' = AccAfterBreak(acc)
             /\ UNCHANGED sent
    /\ nbytes' = 0   \* the local is dead until the next opus_encode
    /\ UNCHANGED <<ringVars, running, driver, clockVars, call, buf, fd, histVars>>
    /\ UNCHANGED <<volVars, refCount, initVars, lastIo, gainVars, wrap, wireVars, dropped>>

\* a worker that leaves the inner loop without closing its descriptor
OutCloseSkipped ==
    /\ pc["egress"] = "o_close"
    /\ pc' = [pc EXCEPT !["egress"] =
                IF running = 0 THEN "o_outer" ELSE "o_backoff"]
    /\ UNCHANGED <<ringVars, running, driver, clockVars, call, buf, acc, fd,
                   histVars>>
    /\ UNCHANGED auxVars

\* close(fd); if (running) sleep(1);
OutClose ==
    /\ pc["egress"] = "o_close"
    /\ fd' = [fd EXCEPT !["egress"] = "none"]
    /\ pc' = [pc EXCEPT !["egress"] =
                IF running = 0 THEN "o_outer" ELSE "o_backoff"]
    /\ UNCHANGED <<ringVars, running, driver, clockVars, call, buf, acc, histVars>>
    /\ UNCHANGED auxVars

(***************************************************************************)
(* input_transport_thread, lines 357-407.                                  *)
(***************************************************************************)
InConnect ==
    /\ pc["ingress"] = "i_outer"
    /\ IF running = 0
       THEN /\ pc' = [pc EXCEPT !["ingress"] = "i_exit"]
            /\ UNCHANGED <<fd, peer, rd, event>>
       ELSE /\ event' = [event EXCEPT !["ingress"] = "attempt"]
            /\ \E outcome \in VsockOutcomes :
                 LET r == vsock_connect(outcome)
                 IN /\ fd' = [fd EXCEPT !["ingress"] = r.desc]
                    /\ IF r.ret < 0
                       THEN /\ pc' = [pc EXCEPT !["ingress"] = "i_backoff"]
                            /\ UNCHANGED <<peer, rd>>
                       ELSE /\ pc' = [pc EXCEPT !["ingress"] = "i_inner"]
                            /\ peer' = IdlePeer
                            /\ rd' = NoRead
    /\ UNCHANGED <<ringVars, running, driver, clockVars, call, buf, acc, histVars>>
    /\ UNCHANGED <<volVars, refCount, initVars, lastIo, gainVars, wrap, egressVars, stream, wireCount, inFlight, opusBuf,
                   pktLen, lastFrame, fed>>

InBackoff ==
    /\ pc["ingress"] = "i_backoff"
    /\ pc' = [pc EXCEPT !["ingress"] = "i_outer"]
    /\ UNCHANGED <<ringVars, running, driver, clockVars, call, buf, acc, fd, histVars>>
    /\ UNCHANGED auxVars

\* framed_read, opus_decode, gain, ring_write(&drv->inputRing, pcm, nsamples)
InFrameTo(after) ==
    /\ pc["ingress"] = "i_inner"
    /\ IF running = 0
       THEN /\ pc' = [pc EXCEPT !["ingress"] = "i_close"]
            /\ UNCHANGED <<call, buf, offered, event>>
       ELSE \/ \* framed_read fails: break
               /\ pc' = [pc EXCEPT !["ingress"] = AfterBreak("ingress")]
               /\ event' = [event EXCEPT !["ingress"] = "error"]
               /\ UNCHANGED <<call, buf, offered>>
            \/ \* opus_decode fails: continue
               /\ pc' = pc
               /\ UNCHANGED <<call, buf, offered, event>>
            \/ \* a packet of nsamples frames is decoded
               \E nsamples \in 1..OPUS_FRAME_SIZE :
                 /\ offered["inputRing"] + nsamples <= MaxOffered
                 /\ buf' = [buf EXCEPT !["ingress"] =
                              [i \in 1..OPUS_FRAME_SIZE |->
                                 IF i <= nsamples
                                 THEN offered["inputRing"] + i ELSE @[i]]]
                 /\ offered' = [offered EXCEPT !["inputRing"] = @ + nsamples]
                 /\ call' = [call EXCEPT !["ingress"] =
                               NewCall("inputRing", nsamples, 0, head["inputRing"])]
                 /\ pc' = [pc EXCEPT !["ingress"] = after]
                 /\ UNCHANGED event
    /\ UNCHANGED <<ringVars, running, driver, clockVars, acc, fd, accepted, readOut>>
    /\ UNCHANGED <<volVars, egressVars, wireVars, refCount, initVars, lastIo, gainVars, wrap>>

\* framed_read, opus_decode and the conversion loop as one step, up to the
\* call of ring_write
InFrame == InFrameTo("w_load_head")

\* close(fd); if (running) sleep(1);  What was in flight is lost.
InClose ==
    /\ pc["ingress"] = "i_close"
    /\ fd' = [fd EXCEPT !["ingress"] = "none"]
    /\ pc' = [pc EXCEPT !["ingress"] =
                IF running = 0 THEN "i_outer" ELSE "i_backoff"]
    /\ stream' = <<>>
    /\ inFlight' = <<>>
    /\ peer' = NoPeer
    /\ UNCHANGED <<ringVars, running, driver, clockVars, call, buf, acc, histVars>>
    /\ UNCHANGED <<volVars, lifeVars, initVars, lastIo, gainVars, wrap, egressVars, wireCount, rd, opusBuf, pktLen,
                   lastFrame, fed>>

(***************************************************************************)
(* The wire: framed_write (lines 221-241) and framed_read (243-262) over a *)
(* stream connection, and the ingress worker's inner loop (373-397) at the *)
(* grain of its read calls.  The far end of the ingress connection frames  *)
(* its packets with framed_write, or breaks the protocol.                  *)
(***************************************************************************)
Bytes == 0..(ByteBase - 1)
\* the payloads the far end sends: for each length one per first byte, the
\* bytes counting up from it, so that a byte stored out of place shows
Payloads(len) == {[i \in 1..len |-> (b + i - 1) % ByteBase] : b \in Bytes}
Drop(q, k) == SubSeq(q, k + 1, Len(q))

\* a header written low byte first
HeaderOfSwapped(len) == <<len % ByteBase, (len \div ByteBase) % ByteBase>>

\* hdr[0] = (unsigned char)(len >> 8); hdr[1] = (unsigned char)(len & 0xFF);
HeaderOf(len) == <<(len \div ByteBase) % ByteBase, len % ByteBase>>

\* uint16_t len = ((uint16_t)hdr[0] << 8) | hdr[1];
LengthOf(hdr) == hdr[1] * ByteBase + hdr[2]

\* a framed_read that accepts any length
LengthRejectedNever(len, bufsize) == FALSE

\* if (len == 0 || len > bufsize) return -1;
LengthRejected(len, bufsize) == len = 0 \/ len > bufsize

\* the far end calls framed_write(fd, data, len)
FramedWriteBegin ==
    /\ peer.st = "idle"
    /\ wireCount < MaxWireFrames
    /\ \E len \in 1..OPUS_MAX_PACKET : \E data \in Payloads(len) :
         /\ peer' = [st |-> "hdr", len |-> len, hdr |-> HeaderOf(len),
                     data |-> data, n |-> 0]
         /\ inFlight' = Append(inFlight, [len |-> len, data |-> data])
    /\ wireCount' = wireCount + 1
    /\ UNCHANGED <<ringVars, running, driver, clockVars, pc, call, buf, acc, fd,
                   histVars, volVars, lifeVars, initVars, lastIo, gainVars, wrap, egressVars, stream, rd, opusBuf, pktLen,
                   lastFrame, fed>>

\* while (n < 2) { w = write(fd, hdr + n, 2 - n); ... n += w; }
FramedWriteHeader ==
    /\ peer.st = "hdr"
    /\ \E w \in 1..(2 - peer.n) :
         /\ stream' = stream \o SubSeq(peer.hdr, peer.n + 1, peer.n + w)
         /\ peer' = IF peer.n + w < 2 THEN [peer EXCEPT !.n = @ + w]
                    ELSE IF peer.len = 0 THEN IdlePeer
                    ELSE [peer EXCEPT !.st = "payload", !.n = 0]
    /\ UNCHANGED <<ringVars, running, driver, clockVars, pc, call, buf, acc, fd,
                   histVars, volVars, lifeVars, initVars, lastIo, gainVars, wrap, egressVars, wireCount, inFlight, rd,
                   opusBuf, pktLen, lastFrame, fed>>

\* while (n < len) { w = write(fd, data + n, len - n); ... n += w; } return 0;
FramedWritePayload ==
    /\ peer.st = "payload"
    /\ \E w \in 1..(peer.len - peer.n) :
         /\ stream' = stream \o SubSeq(peer.data, peer.n + 1, peer.n + w)
         /\ peer' = IF peer.n + w < peer.len THEN [peer EXCEPT !.n = @ + w]
                    ELSE IdlePeer
    /\ UNCHANGED <<ringVars, running, driver, clockVars, pc, call, buf, acc, fd,
                   histVars, volVars, lifeVars, initVars, lastIo, gainVars, wrap, egressVars, wireCount, inFlight, rd,
                   opusBuf, pktLen, lastFrame, fed>>

\* if (w <= 0) return -1; the far end gives the connection up
FramedWriteFail ==
    /\ peer.st \in {"hdr", "payload"}
    /\ peer' = [NoPeer EXCEPT !.st = "closed"]
    /\ UNCHANGED <<ringVars, running, driver, clockVars, pc, call, buf, acc, fd,
                   histVars, volVars, lifeVars, initVars, lastIo, gainVars, wrap, egressVars, stream, wireCount, inFlight,
                   rd, opusBuf, pktLen, lastFrame, fed>>

\* the far end breaks the protocol: a header with a length framed_read must
\* reject, and a byte after it
PeerBadHeader ==
    /\ peer.st = "idle"
    /\ wireCount < MaxWireFrames
    /\ \E h \in [1..2 -> Bytes], b \in Bytes :
         /\ LengthOf(h) = 0 \/ LengthOf(h) > OPUS_MAX_PACKET
         /\ stream' = stream \o h \o <<b>>
    /\ wireCount' = wireCount + 1
    /\ UNCHANGED <<ringVars, running, driver, clockVars, pc, call, buf, acc, fd,
                   histVars, volVars, lifeVars, initVars, lastIo, gainVars, wrap, egressVars, peer, inFlight, rd, opusBuf,
                   pktLen, lastFrame, fed>>

\* the far end closes the connection
PeerClose ==
    /\ peer.st = "idle"
    /\ peer' = [NoPeer EXCEPT !.st = "closed"]
    /\ UNCHANGED <<ringVars, running, driver, clockVars, pc, call, buf, acc, fd,
                   histVars, volVars, lifeVars, initVars, lastIo, gainVars, wrap, egressVars, stream, wireCount, inFlight,
                   rd, opusBuf, pktLen, lastFrame, fed>>

\* while (running) { uint16_t pkt_len = 0; framed_read(fd, opus_buf, ...
InReadFrame ==
    /\ pc["ingress"] = "i_inner"
    /\ IF running = 0
       THEN /\ pc' = [pc EXCEPT !["ingress"] = "i_close"]
            /\ UNCHANGED <<rd, pktLen>>
       ELSE /\ pc' = [pc EXCEPT !["ingress"] = "fr_hdr"]
            /\ pktLen' = 0
            /\ rd' = [NoRead EXCEPT !.res = "run",
                                    !.head0 = head["inputRing"],
                                    !.fed0 = fed.count]
    /\ UNCHANGED <<ringVars, running, driver, clockVars, call, buf, acc, fd,
                   histVars, volVars, lifeVars, initVars, lastIo, gainVars, wrap, egressVars, stream, peer, wireCount,
                   inFlight, opusBuf, lastFrame, fed>>

\* while (n < 2) { r = read(fd, hdr + n, 2 - n); ... n += r; }
\* read blocks while the stream is empty
FramedReadHeader ==
    /\ pc["ingress"] = "fr_hdr"
    /\ \E r \in 1..Min(2 - rd.n, Len(stream)) :
         /\ rd' = [rd EXCEPT !.hdr = @ \o SubSeq(stream, 1, r),
                             !.n = @ + r, !.consumed = @ + r]
         /\ stream' = Drop(stream, r)
         /\ pc' = [pc EXCEPT !["ingress"] =
                     IF rd.n + r < 2 THEN "fr_hdr" ELSE "fr_len"]
    /\ UNCHANGED <<ringVars, running, driver, clockVars, call, buf, acc, fd,
                   histVars, volVars, lifeVars, initVars, lastIo, gainVars, wrap, egressVars, peer, wireCount, inFlight,
                   opusBuf, pktLen, lastFrame, fed>>

\* len = (hdr[0] << 8) | hdr[1]; if (len == 0 || len > bufsize) return -1;
\* and the worker's break on framed_read < 0
FramedReadLength ==
    /\ pc["ingress"] = "fr_len"
    /\ LET len == LengthOf(rd.hdr)
       IN IF LengthRejected(len, OPUS_MAX_PACKET)
          THEN /\ rd' = [rd EXCEPT !.len = len, !.n = 0, !.res = "badlen"]
               /\ pc' = [pc EXCEPT !["ingress"] = AfterBreak("ingress")]
               /\ event' = [event EXCEPT !["ingress"] = "error"]
          ELSE /\ rd' = [rd EXCEPT !.len = len, !.n = 0]
               /\ pc' = [pc EXCEPT !["ingress"] = "fr_payload"]
               /\ UNCHANGED event
    /\ UNCHANGED <<ringVars, running, driver, clockVars, call, buf, acc, fd,
                   histVars, volVars, refCount, initVars, lastIo, gainVars, wrap, egressVars, stream, peer, wireCount,
                   inFlight, opusBuf, pktLen, lastFrame, fed>>

\* a framed_read that stores the payload one byte further on
PayloadSlotShifted(n, i) == ((n + i) % OPUS_MAX_PACKET) + 1

\* read(fd, buf + n, len - n): where the i-th byte read (i = 1 ..) goes
PayloadSlot(n, i) == n + i

\* while (n < len) { r = read(fd, buf + n, len - n); ... n += r; }
\* *out_len = len; return 0;
FramedReadPayload ==
    /\ pc["ingress"] = "fr_payload"
    /\ \E r \in 1..Min(rd.len - rd.n, Len(stream)) :
         LET filled == [i \in 1..OPUS_MAX_PACKET |->
                          IF \E k \in 1..r : PayloadSlot(rd.n, k) = i
                          THEN stream[CHOOSE k \in 1..r : PayloadSlot(rd.n, k) = i]
                          ELSE opusBuf[i]]
             done == rd.n + r = rd.len
         IN /\ opusBuf' = filled
            /\ stream' = Drop(stream, r)
            /\ rd' = [rd EXCEPT !.n = @ + r, !.consumed = @ + r,
                                !.res = IF done THEN "ok" ELSE @]
            /\ pktLen' = IF done THEN rd.len ELSE pktLen
            /\ lastFrame' =
                 IF done
                 THEN [len |-> rd.len, data |-> SubSeq(filled, 1, rd.len),
                       want |-> IF inFlight = <<>> THEN <<>> ELSE <<Head(inFlight)>>,
                       consumed |-> rd.consumed + r]
                 ELSE lastFrame
            /\ inFlight' = IF done /\ inFlight # <<>> THEN Tail(inFlight)
                           ELSE inFlight
            /\ pc' = [pc EXCEPT !["ingress"] =
                        IF done THEN "i_decode" ELSE "fr_payload"]
    /\ UNCHANGED <<ringVars, running, driver, clockVars, call, buf, acc, fd,
                   histVars, volVars, lifeVars, initVars, lastIo, gainVars, wrap, egressVars, peer, wireCount, fed>>

\* r = read(..) = 0, if (r <= 0) return -1: the far end has closed and
\* nothing is left to read; the worker breaks out of the inner loop
FramedReadEof ==
    /\ pc["ingress"] \in {"fr_hdr", "fr_payload"}
    /\ peer.st = "closed"
    /\ stream = <<>>
    /\ event' = [event EXCEPT !["ingress"] = "error"]
    /\ rd' = [rd EXCEPT !.res = "ioerr"]
    /\ pc' = [pc EXCEPT !["ingress"] = AfterBreak("ingress")]
    /\ UNCHANGED <<ringVars, running, driver, clockVars, call, buf, acc, fd,
                   histVars, volVars, refCount, initVars, lastIo, gainVars, wrap, egressVars, stream, peer, wireCount,
                   inFlight, opusBuf, pktLen, lastFrame, fed>>

\* r = read(..) < 0, if (r <= 0) return -1: the connection broke
FramedReadError ==
    /\ pc["ingress"] \in {"fr_hdr", "fr_payload"}
    /\ event' = [event EXCEPT !["ingress"] = "error"]
    /\ rd' = [rd EXCEPT !.res = "ioerr"]
    /\ pc' = [pc EXCEPT !["ingress"] = AfterBreak("ingress")]
    /\ UNCHANGED <<ringVars, running, driver, clockVars, call, buf, acc, fd,
                   histVars, volVars, refCount, initVars, lastIo, gainVars, wrap, egressVars, stream, peer, wireCount,
                   inFlight, opusBuf, pktLen, lastFrame, fed>>

\* opus_decode(dec, opus_buf, pkt_len, ..); if (nsamples < 0) continue;
\* gain, conversion, ring_write(&drv->inputRing, pcm, nsamples)
\* a worker that drops the connection when the decoder fails
AfterDecodeErrorBreak(w) == "i_close"

\* if (nsamples < 0) { os_log_error(..); continue; }
AfterDecodeError(w) == "i_inner"

InDecode ==
    /\ pc["ingress"] = "i_decode"
    /\ fed' = [count |-> fed.count + 1, len |-> pktLen,
               data |-> SubSeq(opusBuf, 1, pktLen)]
    /\ \/ \* opus_decode fails: continue
          /\ pc' = [pc EXCEPT !["ingress"] = AfterDecodeError("ingress")]
          /\ UNCHANGED <<call, buf, offered>>
       \/ \* a packet of nsamples frames is decoded
          \E nsamples \in 1..OPUS_FRAME_SIZE :
            /\ offered["inputRing"] + nsamples <= MaxOffered
            /\ buf' = [buf EXCEPT !["ingress"] =
                         [i \in 1..OPUS_FRAME_SIZE |->
                            IF i <= nsamples
                            THEN offered["inputRing"] + i ELSE @[i]]]
            /\ offered' = [offered EXCEPT !["inputRing"] = @ + nsamples]
            /\ call' = [call EXCEPT !["ingress"] =
                          NewCall("inputRing", nsamples, 0, head["inputRing"])]
            /\ pc' = [pc EXCEPT !["ingress"] = "w_load_head"]
    /\ UNCHANGED <<ringVars, running, driver, clockVars, acc, fd, accepted,
                   readOut, volVars, lifeVars, initVars, lastIo, gainVars, wrap, egressVars, stream, peer, wireCount,
                   inFlight, rd, opusBuf, pktLen, lastFrame>>

WireNext ==
    \/ Initialize
    \/ InConnect
    \/ InBackoff
    \/ InReadFrame
    \/ FramedReadHeader
    \/ FramedReadLength
    \/ FramedReadPayload
    \/ FramedReadEof
    \/ FramedReadError
    \/ InDecode
    \/ RingWriteLoadHead("ingress")
    \/ RingWriteLoadTail("ingress")
    \/ RingWriteCopy("ingress")
    \/ RingWriteStore("ingress")
    \/ InClose
    \/ FramedWriteBegin
    \/ FramedWriteHeader
    \/ FramedWritePayload
    \/ FramedWriteFail
    \/ PeerBadHeader
    \/ PeerClose

(***************************************************************************)
(* The sample clock: driver_StartIO, driver_StopIO, driver_GetZeroTimeStamp *)
(* (lines 1305-1367) and the host clock they read.                         *)
(***************************************************************************)
\* the IO thread of a device; the device is followed in this run when its
\* thread is
IoThreadOf(dev) == IF dev = "output" THEN "ioOut" ELSE "ioIn"
Followed(dev) == pc[IoThreadOf(dev)] # "none"

\* elapsed * timebase.numer / timebase.denom
TicksToNs(ticks) == (ticks * timebase[1]) \div timebase[2]

\* the conversion with the ratio upside down
NsToTicksSwapped(ns) == (ns * timebase[1]) \div timebase[2]

\* ns * timebase.denom / timebase.numer
NsToTicks(ns) == (ns * timebase[2]) \div timebase[1]

\* (uint64_t)CLOCK_PERIOD_FRAMES * 1000000000ULL / SAMPLE_RATE, evaluated as
\* (CLOCK_PERIOD_FRAMES * 10^6 / SAMPLE_RATE) * 10^3 to stay in 32 bits (the
\* same value while SAMPLE_RATE divides CLOCK_PERIOD_FRAMES * 10^6)
NsPerPeriod == ((CLOCK_PERIOD_FRAMES * 1000000) \div SAMPLE_RATE) * 1000

\* periods rounded to the nearest instead of down
PeriodsNearest(elapsed) ==
    (TicksToNs(elapsed) + (NsPerPeriod \div 2)) \div NsPerPeriod

\* periods = elapsed_ns / ns_per_period
Periods(elapsed) == TicksToNs(elapsed) \div NsPerPeriod

\* *outSampleTime = (Float64)(periods * CLOCK_PERIOD_FRAMES)
ZeroSampleTime(elapsed) == Periods(elapsed) * CLOCK_PERIOD_FRAMES

\* the boundary of the period that follows instead of the one that began
ZeroHostTimeNext(anchor, elapsed) ==
    anchor + NsToTicks((Periods(elapsed) + 1) * NsPerPeriod)

\* *outHostTime = ticksAtZero + periods * ns_per_period * denom / numer
ZeroHostTime(anchor, elapsed) ==
    anchor + NsToTicks(Periods(elapsed) * NsPerPeriod)

\* the instants the host clock is read at: for each half period after tick
\* 0, the first tick at or after it and the tick before
TickAt(k) ==
    ((k * (NsPerPeriod \div 2) * timebase[2]) + timebase[1] - 1) \div timebase[1]
Instants ==
    { t \in UNION { {TickAt(k) - 1, TickAt(k)} : k \in 0..MaxHalfPeriods } :
        t >= 0 }

\* the host clock advances
Tick ==
    /\ driver = "ready"
    /\ \E t \in Instants : t > now /\ now' = t
    /\ lastOp' = [op |-> "Tick", dev |-> "none"]
    /\ UNCHANGED <<ringVars, running, driver, pc, call, buf, acc, fd, histVars,
                   timebase, ticksAtZero, sampleTime, ioRunning, ioClients,
                   zts, runSince>>
    /\ UNCHANGED auxVars

\* driver_StartIO: clientID is not looked at; every call sets the anchor to
\* the host clock, the sample time to 0 and the running flag.  The host
\* calls it once for each client that starts IO on the device.
StartIO(dev, client) ==
    /\ driver = "ready"
    /\ Followed(dev)
    /\ client \notin ioClients[dev]
    /\ ticksAtZero' = [ticksAtZero EXCEPT ![dev] = now]
    /\ sampleTime' = [sampleTime EXCEPT ![dev] = 0]
    /\ ioRunning' = [ioRunning EXCEPT ![dev] = 1]
    /\ ioClients' = [ioClients EXCEPT ![dev] = @ \cup {client}]
    /\ lastOp' = [op |-> "StartIO", dev |-> dev]
    /\ UNCHANGED <<ringVars, running, driver, pc, call, buf, acc, fd, histVars,
                   now, timebase, zts, runSince>>
    /\ UNCHANGED auxVars

\* driver_StopIO: clears the running flag, whichever client stops
StopIO(dev, client) ==
    /\ driver = "ready"
    /\ Followed(dev)
    /\ client \in ioClients[dev]
    /\ ioRunning' = [ioRunning EXCEPT ![dev] = 0]
    /\ ioClients' = [ioClients EXCEPT ![dev] = @ \ {client}]
    /\ runSince' = [runSince EXCEPT ![dev] = FALSE]
    /\ lastOp' = [op |-> "StopIO", dev |-> dev]
    /\ UNCHANGED <<ringVars, running, driver, pc, call, buf, acc, fd, histVars,
                   now, timebase, ticksAtZero, sampleTime, zts>>
    /\ UNCHANGED auxVars

\* driver_GetZeroTimeStamp, called by the host for a client doing IO; the
\* running flag is not looked at
GetZeroTimeStamp(dev, client) ==
    /\ driver = "ready"
    /\ Followed(dev)
    /\ client \in ioClients[dev]
    /\ LET anchor == ticksAtZero[dev]
           elapsed == now - anchor
       IN zts' = [zts EXCEPT ![dev] =
                    [sampleTime |-> ZeroSampleTime(elapsed),
                     hostTime |-> ZeroHostTime(anchor, elapsed),
                     seed |-> 1]]
    /\ runSince' = [runSince EXCEPT ![dev] = (ioRunning[dev] = 1)]
    /\ lastOp' = [op |-> "GetZeroTimeStamp", dev |-> dev]
    /\ UNCHANGED <<ringVars, running, driver, pc, call, buf, acc, fd, histVars,
                   now, timebase, ticksAtZero, sampleTime, ioRunning, ioClients>>
    /\ UNCHANGED auxVars

\* driver_GetPropertyData(kAudioDevicePropertyDeviceIsRunning): the
\* device's IO-running flag
DeviceIsRunning(dev) == ioRunning[dev]

ClockNext ==
    \/ Initialize
    \/ Tick
    \/ \E dev \in Devices, client \in Clients : StartIO(dev, client)
    \/ \E dev \in Devices, client \in Clients : StopIO(dev, client)
    \/ \E dev \in Devices, client \in Clients : GetZeroTimeStamp(dev, client)

SpecClock == Init /\ [][ClockNext]_vars

(***************************************************************************)
(* The volume controls: driver_SetPropertyData and driver_GetPropertyData  *)
(* on kObjectID_OutputVolume / kObjectID_InputVolume (lines 1225-1299).    *)
(***************************************************************************)
\* the values the host passes: scalars around the ends of [0, 1], decibel
\* values around the ends of [VOLUME_MIN_DB, VOLUME_MAX_DB], and NaN
ScalarInputs == {-1, 0, 250000, One - 1, One, One + 1, 1500000, NaN}
DecibelInputs == {-200, VOLUME_MIN_DB - 1, VOLUME_MIN_DB, -20, VOLUME_MAX_DB,
                  20, NaN}

\* a scalar set that does not clamp at the top
ClampScalarNoUpper(v) == IF FLess(v, 0) THEN 0 ELSE v

\* if (v < 0.0f) v = 0.0f; if (v > 1.0f) v = 1.0f;
ClampScalar(v) ==
    IF FLess(v, 0) THEN 0 ELSE IF FLess(One, v) THEN One ELSE v

\* if (db < VOLUME_MIN_DB) db = VOLUME_MIN_DB; if (db > VOLUME_MAX_DB) db = ...
ClampDecibel(db) ==
    IF FLess(db, VOLUME_MIN_DB) THEN VOLUME_MIN_DB
    ELSE IF FLess(VOLUME_MAX_DB, db) THEN VOLUME_MAX_DB ELSE db

\* powf(10.0f, db / 20.0f) in millionths, for db a multiple of 20; NaN for NaN
Powf10(db) == IF db = NaN THEN NaN ELSE 10 ^ ((db + 120) \div 20)

\* db_to_scalar, lines 275-278
db_to_scalar(db) == IF FLessEq(db, VOLUME_MIN_DB) THEN 0 ELSE Powf10(db)

\* SetPropertyData(kAudioLevelControlPropertyScalarValue); sizeOk is
\* inSize >= sizeof(Float32)
SetScalarValue(dev, v, sizeOk) ==
    /\ driver = "ready"
    /\ IF sizeOk
       THEN /\ volume' = [volume EXCEPT ![dev] = ClampScalar(v)]
            /\ lastSet' = [lastSet EXCEPT ![dev] = [sel |-> "scalar", val |-> v]]
            /\ lastOp' = [op |-> "SetScalarValue", dev |-> dev]
       ELSE /\ UNCHANGED <<volume, lastSet>>
            /\ lastOp' = [op |-> "BadPropertySize", dev |-> dev]
    /\ UNCHANGED <<ringVars, running, driver, pc, call, buf, acc, fd, histVars,
                   now, timebase, ticksAtZero, sampleTime, ioRunning, ioClients,
                   zts, runSince, mute, lastGet, egressVars, lifeVars, initVars, lastIo, gainVars, wrap, wireVars>>

\* SetPropertyData(kAudioLevelControlPropertyDecibelValue)
SetDecibelValue(dev, db, sizeOk) ==
    /\ driver = "ready"
    /\ IF sizeOk
       THEN /\ volume' = [volume EXCEPT ![dev] = db_to_scalar(ClampDecibel(db))]
            /\ lastSet' = [lastSet EXCEPT ![dev] = [sel |-> "decibel", val |-> db]]
            /\ lastOp' = [op |-> "SetDecibelValue", dev |-> dev]
       ELSE /\ UNCHANGED <<volume, lastSet>>
            /\ lastOp' = [op |-> "BadPropertySize", dev |-> dev]
    /\ UNCHANGED <<ringVars, running, driver, pc, call, buf, acc, fd, histVars,
                   now, timebase, ticksAtZero, sampleTime, ioRunning, ioClients,
                   zts, runSince, mute, lastGet, egressVars, lifeVars, initVars, lastIo, gainVars, wrap, wireVars>>

\* GetPropertyData(kAudioLevelControlPropertyScalarValue): WRITE_PROPERTY
GetScalarValue(dev, sizeOk) ==
    /\ driver = "ready"
    /\ IF sizeOk
       THEN /\ lastGet' = [dev |-> dev, val |-> volume[dev]]
            /\ lastOp' = [op |-> "GetScalarValue", dev |-> dev]
       ELSE /\ UNCHANGED lastGet
            /\ lastOp' = [op |-> "BadPropertySize", dev |-> dev]
    /\ UNCHANGED <<ringVars, running, driver, pc, call, buf, acc, fd, histVars,
                   now, timebase, ticksAtZero, sampleTime, ioRunning, ioClients,
                   zts, runSince, volume, mute, lastSet, egressVars, lifeVars, initVars, lastIo, gainVars, wrap, wireVars>>

\* one machine: the timebase is read by the clock only
InitRings == Init /\ timebase = <<125, 3>>

VolumeNext ==
    \/ Initialize
    \/ \E dev \in Devices, v \in ScalarInputs, sizeOk \in BOOLEAN :
          SetScalarValue(dev, v, sizeOk)
    \/ \E dev \in Devices, db \in DecibelInputs, sizeOk \in BOOLEAN :
          SetDecibelValue(dev, db, sizeOk)
    \/ \E dev \in Devices, sizeOk \in BOOLEAN : GetScalarValue(dev, sizeOk)

SpecVolume == InitRings /\ [][VolumeNext]_vars

SpecWire == InitRings /\ [][WireNext]_vars

(***************************************************************************)
(* The specification: the host's calls and the four threads interleaved.   *)
(***************************************************************************)
Next ==
    \/ Initialize
    \/ DoIOWriteMix
    \/ DoIOWriteMixReturn
    \/ DoIOReadInput
    \/ DoIOReadInputReturn
    \/ \E th \in Threads : RingWriteLoadHead(th)
    \/ \E th \in Threads : RingWriteLoadTail(th)
    \/ \E th \in Threads : RingWriteCopy(th)
    \/ \E th \in Threads : RingWriteStore(th)
    \/ \E th \in Threads : RingReadLoadHead(th)
    \/ \E th \in Threads : RingReadLoadTail(th)
    \/ \E th \in Threads : RingReadCopy(th)
    \/ \E th \in Threads : RingReadStore(th)
    \/ OutConnect
    \/ OutBackoff
    \/ OutDrain
    \/ OutAccumulate
    \/ OutEncode
    \/ OutSend
    \/ OutClose
    \/ InConnect
    \/ InBackoff
    \/ InFrame
    \/ InClose

\* The rings, the IO handler and the workers never read the timebase: their
\* runs are followed on one machine.
Spec == InitRings /\ [][Next]_vars

\* the way of a worker from the end of its inner loop to its next call of
\* vsock_connect: close(fd), sleep(1), the outer loop's test
EgressReconnect == OutClose \/ OutBackoff \/ OutConnect
IngressReconnect == InClose \/ InBackoff \/ InConnect

\* The workers are threads of their own (pthread_create, lines 588-589) and
\* go on whenever they can: close(fd) returns, sleep(1) ends, vsock_connect
\* returns.  Nothing else is assumed, of them or of the host's IO threads.
SpecFair == Spec /\ WF_vars(EgressReconnect) /\ WF_vars(IngressReconnect)

TypeOK ==
    /\ opusEncoder \in {"null", "alloc"} /\ opusDecoder \in {"null", "alloc"}
    /\ refCount \in Nat
    /\ event \in [Workers -> {"none", "error", "attempt"}]
    /\ \A rb \in Rings : head[rb] \in Nat /\ tail[rb] \in Nat
    /\ acc \in 0..OPUS_FRAME_SIZE

(***************************************************************************)
(* Properties of the rings.                                                *)
(***************************************************************************)
Writers == {"ioOut", "ingress"}
Readers == {"ioIn", "egress"}
InRingRead(th) == pc[th] \in {"r_load_head", "r_load_tail", "r_copy", "r_store"}
InRingWrite(th) == pc[th] \in {"w_load_head", "w_load_tail", "w_copy", "w_store"}

\* C1: in every reachable state, whatever the interleaving of the producer's
\* and the consumer's loads, frame copies and stores, each ring has
\* tail <= head <= tail + RING_CAPACITY.
RingBounds ==
    \A rb \in Rings :
        /\ tail[rb] <= head[rb]
        /\ head[rb] <= tail[rb] + RING_CAPACITY

\* a ring that has wrapped is full while its consumer is in the middle of a
\* ring_read and its producer in the middle of a ring_write
RingBoundsWitness ==
    \E rb \in Rings :
        /\ head[rb] = tail[rb] + RING_CAPACITY
        /\ tail[rb] > 0
        /\ \E r \in Readers : call[r].rb = rb /\ pc[r] = "r_copy"
        /\ \E w \in Writers : call[w].rb = rb /\ pc[w] = "w_load_tail"

\* C2: the frames successive ring_read calls returned are, in order, a
\* prefix of the frames successive ring_write calls accepted: nothing is
\* duplicated, reordered or invented, and tail counts the frames returned.
\* (The frames a ring_write did not accept are in neither history.)
RingFifo ==
    \A rb \in Rings :
        /\ Len(readOut[rb]) = tail[rb]
        /\ Len(accepted[rb]) = head[rb]
        /\ readOut[rb] = SubSeq(accepted[rb], 1, tail[rb])
        /\ \A i \in 1..Len(accepted[rb]) : \A j \in 1..Len(accepted[rb]) :
              i < j => accepted[rb][i] < accepted[rb][j]

\* the consumer has read past the end of the storage (a wrapped read) of a
\* ring whose producer lost frames to overflow
RingFifoWitness ==
    \E rb \in Rings :
        /\ Len(readOut[rb]) > RING_CAPACITY
        /\ Len(accepted[rb]) < offered[rb]
        /\ \E i \in 1..Len(readOut[rb]) : readOut[rb][i] # i
        /\ \A th \in Threads : ~InRingWrite(th) /\ ~InRingRead(th)


\* a writer (reader) that has just returned from ring_write (ring_read)
WriteReturned(th) == th \in Writers /\ pc[th] = AfterCall(th) /\ call[th].calls > 0
ReadReturned(th) == th \in Readers /\ pc[th] = AfterCall(th) /\ call[th].calls > 0

\* C3: ring_write(count = k) returns min(k, free), free = RING_CAPACITY -
\* (head - tail) as the call observed them, and leaves head advanced by
\* exactly the value returned; RING_CAPACITY + 1 frames into an empty ring
\* return RING_CAPACITY and leave head - tail = RING_CAPACITY, and a write
\* that observes the ring full returns 0.
RingWriteReturns ==
    \A th \in Writers :
        WriteReturned(th) =>
            LET c == call[th]
                free == RING_CAPACITY - (c.h - c.t)
            IN /\ c.h = c.pos0
               /\ c.ret = Min(c.req, free)
               /\ head[c.rb] = c.pos0 + c.ret
               /\ (c.req = RING_CAPACITY + 1 /\ c.h = c.t) =>
                     (c.ret = RING_CAPACITY /\ head[c.rb] - c.t = RING_CAPACITY)
               /\ (c.req >= 1 /\ c.h - c.t = RING_CAPACITY) => c.ret = 0

\* with the consumer not reading (tail still 0): RING_CAPACITY + 1 frames
\* were offered to the empty ring and RING_CAPACITY accepted, then the next
\* write, of one frame, returned 0
RingWriteReturnsWitness ==
    /\ pc["ioOut"] = "io_write_ret"
    /\ call["ioOut"].req = 1
    /\ call["ioOut"].ret = 0
    /\ offered["outputRing"] = RING_CAPACITY + 2
    /\ accepted["outputRing"] = [i \in 1..RING_CAPACITY |-> i]
    /\ head["outputRing"] = RING_CAPACITY
    /\ tail["outputRing"] = 0

\* C4, the value returned: ring_read(count = k) returns min(k, available),
\* available = head - tail as the call observed them, and leaves tail
\* advanced by exactly the value returned.
RingReadReturnsInv ==
    \A th \in Readers :
        ReadReturned(th) =>
            LET c == call[th]
                available == c.h - c.t
            IN /\ c.t = c.pos0
               /\ c.ret = Min(c.req, available)
               /\ tail[c.rb] = c.pos0 + c.ret
               /\ (c.req = 0 \/ available = 0) => c.ret = 0

\* C4, the frame: no step of a ring_read changes head or the storage, and a
\* step of a ring_read changes tail only when k > 0 and the ring it observed
\* was not empty.
RingReadFrame ==
    \A th \in Readers :
        (InRingRead(th) /\ call'[th] # call[th]) =>
            /\ head' = head
            /\ samples' = samples
            /\ tail' # tail =>
                  (call[th].req > 0 /\ call[th].h - call[th].t > 0)

\* C4: ring_read(count = k) returns min(k, available) and advances tail by
\* exactly that; with k = 0 or an empty ring it returns 0 and changes neither
\* head, tail nor the storage.
RingReadReturns == []RingReadReturnsInv /\ [][RingReadFrame]_vars

\* the egress worker, its accumulator full, has asked for 0 frames of a ring
\* that holds some and got 0
RingReadReturnsWitness ==
    /\ pc["egress"] = "o_got"
    /\ call["egress"].req = 0
    /\ call["egress"].ret = 0
    /\ call["egress"].h > call["egress"].t
    /\ tail["outputRing"] > 0


(***************************************************************************)
(* Properties of the realtime IO handler.                                  *)
(***************************************************************************)
\* the IO handler of thread th has returned from a call
IoReturned(th) == pc[th] = "idle" /\ call[th].status # -1 /\ call[th].calls > 0

\* the frames of ring rb that are written and not yet read, oldest first
Unread(rb) ==
    [i \in 1..(head[rb] - tail[rb]) |->
        samples[rb][(tail[rb] + i - 1) % RING_CAPACITY]]

\* C5: after DoIOOperation(input device, ReadInput, ioSize) the first got
\* frames of ioMainBuffer are the next got frames of the ingress ring in FIFO
\* order (those accepted after the ones read before), the other ioSize - got
\* frames are zero, got = min(ioSize, available), and the call returns no
\* error; with an empty ring all ioSize frames are zero.
ReadInputFills ==
    IoReturned("ioIn") =>
        LET c == call["ioIn"]
            got == Min(c.req, c.h - c.t)
        IN /\ c.status = kAudioHardwareNoError
           /\ c.ret = got
           /\ Len(buf["ioIn"]) = c.req
           /\ \A i \in 1..c.req :
                buf["ioIn"][i] =
                    IF i <= got THEN accepted["inputRing"][c.pos0 + i]
                    ELSE Silence
           /\ Len(readOut["inputRing"]) = c.pos0 + got

\* an underrun on a ring that has wrapped: the handler got some frames, fewer
\* than ioSize, and the first of them was not in slot 0
ReadInputFillsWitness ==
    /\ IoReturned("ioIn")
    /\ call["ioIn"].ret > 1
    /\ call["ioIn"].ret < call["ioIn"].req
    /\ call["ioIn"].pos0 + call["ioIn"].ret > RING_CAPACITY
    /\ call["ioIn"].pos0 % RING_CAPACITY # 0

\* C6: DoIOOperation(output device, WriteMix, ioSize) makes exactly one
\* ring_write attempt; the frames the ring holds unread are at all times the
\* frames accepted, in order (an overflowing write overwrites none of them);
\* the handler accepts the first `ret` (oldest) frames of its buffer and
\* drops the rest, and returns no error.
WriteMixDropsNewest ==
    /\ Unread("outputRing") =
         SubSeq(accepted["outputRing"], tail["outputRing"] + 1, head["outputRing"])
    /\ (pc["ioOut"] = "io_write_ret" \/ IoReturned("ioOut")) =>
         LET c == call["ioOut"]
             n == Len(accepted["outputRing"])
         IN /\ c.calls = 1
            /\ c.ret = Min(c.req, RING_CAPACITY - (c.h - c.t))
            /\ n = c.pos0 + c.ret
            /\ SubSeq(accepted["outputRing"], c.pos0 + 1, n)
                 = SubSeq(buf["ioOut"], 1, c.ret)
    /\ IoReturned("ioOut") => call["ioOut"].status = kAudioHardwareNoError

\* the handler has returned from a WriteMix of which only a part fitted, with
\* unread frames in the ring before it
WriteMixDropsNewestWitness ==
    /\ IoReturned("ioOut")
    /\ call["ioOut"].ret > 0
    /\ call["ioOut"].ret < call["ioOut"].req
    /\ call["ioOut"].h > call["ioOut"].t
    /\ Len(accepted["outputRing"]) < offered["outputRing"]

\* the steps of the IO handler that thread th runs
IoHandlerStep(th) ==
    \/ RingWriteLoadHead(th)
    \/ RingWriteLoadTail(th)
    \/ RingWriteCopy(th)
    \/ RingWriteStore(th)
    \/ RingReadLoadHead(th)
    \/ RingReadLoadTail(th)
    \/ RingReadCopy(th)
    \/ RingReadStore(th)
    \/ (th = "ioOut" /\ DoIOWriteMixReturn)
    \/ (th = "ioIn" /\ DoIOReadInputReturn)

\* C7: the IO handler is wait-free: in every state in which a call of
\* DoIOOperation is in progress its next step can be taken, whatever the
\* other threads have done or not done, and the call has taken at most
\* ioSize + 4 steps (entry, two loads, at most ioSize frame copies, the
\* store); the step after that returns.
IoHandlerWaitFree ==
    \A th \in IoThreads :
        pc[th] \notin {"idle", "none"} =>
            /\ ENABLED IoHandlerStep(th)
            /\ call[th].steps <= call[th].req + 4

\* a WriteMix in progress is about to find the ring full while the egress
\* worker, not connected and in its backoff sleep, reads nothing
IoHandlerWaitFreeWitness ==
    /\ pc["ioOut"] = "w_load_tail"
    /\ call["ioOut"].req > 0
    /\ head["outputRing"] - tail["outputRing"] = RING_CAPACITY
    /\ fd["egress"] = "none"
    /\ pc["egress"] = "o_backoff"


(***************************************************************************)
(* Properties of the sample clock.                                         *)
(***************************************************************************)
\* the host's last call was GetZeroTimeStamp on dev: now is the time of the
\* call, ticksAtZero[dev] the anchor it used, zts[dev] what it returned
JustStamped(dev) == lastOp = [op |-> "GetZeroTimeStamp", dev |-> dev]

\* C8: the sample_time GetZeroTimeStamp returns for a device does not go
\* down from one call to the next while the device's IO is running (a client
\* has started it, the running flag is set and no StopIO came in between).
ZeroTimeStampMonotonic ==
    [][\A dev \in Devices :
         ( /\ lastOp' = [op |-> "GetZeroTimeStamp", dev |-> dev]
           /\ lastOp' # lastOp
           /\ runSince[dev]
           /\ ioRunning[dev] = 1
           /\ ioClients[dev] # {} )
         => zts'[dev].sampleTime >= zts[dev].sampleTime]_vars

\* C9: GetZeroTimeStamp at host time t after StartIO at t0 returns
\* sample_time = floor(ns(t - t0) / ns_per_period) * CLOCK_PERIOD_FRAMES with
\* ns_per_period = 10 ms: 0 at 0 ms, 480 at 15 ms, 960 at 25 ms.
ZeroTimeStampFloors ==
    \A dev \in Devices :
        JustStamped(dev) =>
            LET ns == ((now - ticksAtZero[dev]) * timebase[1]) \div timebase[2]
                st == zts[dev].sampleTime
            IN /\ NsPerPeriod = 10000000
               /\ st = (ns \div NsPerPeriod) * CLOCK_PERIOD_FRAMES
               /\ ns = 0 => st = 0
               /\ ns = 15000000 => st = 480
               /\ ns = 25000000 => st = 960

\* a call 15 ms after StartIO has returned 480
ZeroTimeStampFloorsWitness ==
    \E dev \in Devices :
        /\ JustStamped(dev)
        /\ ((now - ticksAtZero[dev]) * timebase[1]) \div timebase[2] = 15000000
        /\ zts[dev].sampleTime = 480
        /\ ioRunning[dev] = 1

\* C10: the pair one call returns names one period boundary: host_time -
\* ticks_at_zero is within one tick of the ticks that sample_time frames
\* last at SAMPLE_RATE, i.e. of sample_time * (10^9 / SAMPLE_RATE) * denom /
\* numer, for each timebase and each elapsed tick count.  (10^9 / SAMPLE_RATE
\* is taken in lowest terms to stay in 32 bits.)
ZeroTimeStampCoherent ==
    \A dev \in Devices :
        JustStamped(dev) =>
            LET g == 16000
                nsNum == 1000000000 \div g
                nsDen == SAMPLE_RATE \div g
                ticks == zts[dev].hostTime - ticksAtZero[dev]
                lhs == ticks * nsDen * timebase[1]
                rhs == zts[dev].sampleTime * nsNum * timebase[2]
            IN /\ nsNum * (SAMPLE_RATE \div 1000) = nsDen * 1000000
               /\ lhs - rhs <= nsDen * timebase[1]
               /\ rhs - lhs <= nsDen * timebase[1]
               /\ zts[dev].sampleTime % CLOCK_PERIOD_FRAMES = 0

\* a call in the middle of the third period on a machine whose ticks do not
\* divide the period: host_time was rounded
ZeroTimeStampCoherentWitness ==
    \E dev \in Devices :
        /\ JustStamped(dev)
        /\ zts[dev].sampleTime = 2 * CLOCK_PERIOD_FRAMES
        /\ (2 * NsPerPeriod * timebase[2]) % timebase[1] # 0
        /\ zts[dev].hostTime < now
        /\ ticksAtZero[dev] > 0


(***************************************************************************)
(* Properties of the volume controls.                                      *)
(***************************************************************************)
\* the host's last call was a scalar get on dev's volume control, and the
\* last value stored in that control came from a scalar set
ScalarReadBack(dev) ==
    /\ lastOp = [op |-> "GetScalarValue", dev |-> dev]
    /\ lastSet[dev].sel = "scalar"

\* C11, the value: a scalar get that follows a scalar set of v on the same
\* control, with no other set of that control in between, returns v when
\* 0 <= v <= 1, 0 when v < 0 and 1 when v > 1.
ScalarSetGetInv ==
    \A dev \in Devices :
        ScalarReadBack(dev) =>
            LET v == lastSet[dev].val
            IN /\ lastGet.dev = dev
               /\ (v # NaN /\ 0 <= v /\ v <= One) => lastGet.val = v
               /\ (v # NaN /\ v < 0) => lastGet.val = 0
               /\ (v # NaN /\ v > One) => lastGet.val = One

\* C11, the frame: a step changes the volume of a device only if it is a
\* set on that device's control (or driver_Initialize).
ScalarSetFrame ==
    \A dev \in Devices :
        volume'[dev] # volume[dev] =>
            \/ lastOp'.op = "Initialize"
            \/ /\ lastOp'.op \in {"SetScalarValue", "SetDecibelValue"}
               /\ lastOp'.dev = dev

\* C11: after SetPropertyData of a volume control's scalar value to v, a
\* following GetPropertyData of the scalar value of the same control returns
\* exactly v when 0 <= v <= 1, 0 when v < 0 and 1 when v > 1; the other
\* device's volume is unchanged.
ScalarSetGet == []ScalarSetGetInv /\ [][ScalarSetFrame]_vars

\* the output volume was set to 1.5 and read back as 1 while the input
\* volume, set before to 0.25, is still 0.25
ScalarSetGetWitness ==
    /\ ScalarReadBack("output")
    /\ lastSet["output"].val = 1500000
    /\ lastGet = [dev |-> "output", val |-> One]
    /\ lastSet["input"] = [sel |-> "scalar", val |-> 250000]
    /\ volume["input"] = 250000

\* C12: in every state reachable by scalar and decibel sets on the volume
\* controls, outputVolume and inputVolume lie in [0, 1]; a decibel value at
\* or below VOLUME_MIN_DB (e.g. -200) stores the scalar 0.
VolumeInRange ==
    driver = "ready" =>
        \A dev \in Devices :
            /\ FLessEq(0, volume[dev])
            /\ FLessEq(volume[dev], One)
            /\ (lastSet[dev].sel = "decibel" /\ FLessEq(lastSet[dev].val, VOLUME_MIN_DB))
                  => volume[dev] = 0


EgressFrames ==
    /\ 0 <= acc /\ acc <= OPUS_FRAME_SIZE
    /\ pc["egress"] \in {"o_encode", "o_send"} => acc = OPUS_FRAME_SIZE
    /\ sent.count > 0 =>
         /\ Len(sent.pcm) = OPUS_FRAME_SIZE
         /\ \E j \in 0..(Len(readOut["outputRing"]) - OPUS_FRAME_SIZE) :
               sent.pcm = SubSeq(readOut["outputRing"], j + 1, j + OPUS_FRAME_SIZE)

\* the second wire frame was written, of frames the worker collected from a
\* ring that had wrapped and had lost frames to overflow
EgressFramesWitness ==
    /\ sent.count = 2
    /\ tail["outputRing"] > RING_CAPACITY
    /\ \E i \in 1..OPUS_FRAME_SIZE : sent.pcm[i] # tail["outputRing"] - OPUS_FRAME_SIZE + i
    /\ acc = 0

\* C17: after the egress connection failed and the worker reconnected, the
\* audio sent on the new connection contains no PCM frame that the worker
\* had taken from the egress ring before the write error.
NoResendAfterReconnect ==
    (sent.count > 0 /\ sent.err >= 0) =>
        \A i \in 1..Len(sent.pcm) : \A j \in 1..sent.err :
            sent.pcm[i] # readOut["outputRing"][j]


(***************************************************************************)
(* Properties of the wire framing and of the ingress worker.               *)
(***************************************************************************)
\* C14: when the ingress worker reads a header with L = 0 or L >
\* OPUS_MAX_PACKET it reads no payload for it (two bytes consumed), passes
\* nothing to the decoder, writes nothing to the ingress ring, closes the
\* connection and goes back to connecting, without exiting; a length that
\* reaches the payload loop or the decoder is in 1..OPUS_MAX_PACKET.
BadLengthRejected ==
    /\ rd.res = "badlen" =>
         /\ rd.len = 0 \/ rd.len > OPUS_MAX_PACKET
         /\ rd.consumed = 2 /\ rd.n = 0
         /\ pktLen = 0
         /\ fed.count = rd.fed0
         /\ head["inputRing"] = rd.head0
         /\ pc["ingress"] \in {"i_close", "i_backoff", "i_outer"}
         /\ pc["ingress"] # "i_close" => fd["ingress"] = "none"
    /\ pc["ingress"] = "fr_payload" => (1 <= rd.len /\ rd.len <= OPUS_MAX_PACKET)
    /\ fed.count > 0 => (1 <= fed.len /\ fed.len <= OPUS_MAX_PACKET)

\* after a packet that was decoded into the ring, a header with a length
\* above OPUS_MAX_PACKET came while payload bytes were there to read: the
\* worker has closed the connection and sleeps before it connects again
BadLengthRejectedWitness ==
    /\ rd.res = "badlen"
    /\ rd.len > OPUS_MAX_PACKET
    /\ pc["ingress"] = "i_backoff"
    /\ fed.count > 0
    /\ head["inputRing"] > 0

\* C15: what a framed_read that succeeds returns is the frame the oldest
\* outstanding framed_write was called with, the same L with 1 <= L <=
\* OPUS_MAX_PACKET and the same L bytes, and the call has consumed exactly
\* 2 + L bytes of the stream, however the writes and the reads were split.
WireRoundTrip ==
    /\ lastFrame.len > 0 =>
         /\ lastFrame.want = <<[len |-> lastFrame.len, data |-> lastFrame.data]>>
         /\ lastFrame.consumed = 2 + lastFrame.len
         /\ 1 <= lastFrame.len /\ lastFrame.len <= OPUS_MAX_PACKET
    /\ rd.res = "ok" => (pktLen = rd.len /\ lastFrame.len = rd.len)

\* the second frame of a connection came back, of the largest length, with
\* a header whose high byte is not 0 and a payload of unlike bytes
WireRoundTripWitness ==
    /\ rd.res = "ok"
    /\ fed.count = 1
    /\ lastFrame.len = OPUS_MAX_PACKET
    /\ HeaderOf(lastFrame.len)[1] # 0
    /\ \E i \in 1..lastFrame.len : lastFrame.data[i] # lastFrame.data[1]
    /\ fed.len # lastFrame.len


(***************************************************************************)
(* The plug-in's reference count, lines 519-533, and the end of the        *)
(* workers.                                                                *)
(***************************************************************************)
\* driver_AddRef: if (gDriver) return ++gDriver->refCount;
AddRef ==
    /\ refCount < MaxRefs
    /\ refCount' = refCount + 1
    /\ lastOp' = [op |-> "AddRef", dev |-> "none"]
    /\ UNCHANGED <<ringVars, running, driver, pc, call, buf, acc, fd, histVars,
                   now, timebase, ticksAtZero, sampleTime, ioRunning,
                   ioClients, zts, runSince, volVars, egressVars, wireVars,
                   event, initVars, lastIo, gainVars, wrap>>

\* driver_Release: if (gDriver && gDriver->refCount > 0) return
\* --gDriver->refCount; return 0;  Nothing else is done, at 0 either.
Release ==
    /\ refCount' = IF refCount > 0 THEN refCount - 1 ELSE refCount
    /\ lastOp' = [op |-> "Release", dev |-> "none"]
    /\ UNCHANGED <<ringVars, running, driver, pc, call, buf, acc, fd, histVars,
                   now, timebase, ticksAtZero, sampleTime, ioRunning,
                   ioClients, zts, runSince, volVars, egressVars, wireVars,
                   event, initVars, lastIo, gainVars, wrap>>

\* The host's references and the ingress path.
LifeNext ==
    \/ WireNext
    \/ AddRef
    \/ Release

SpecLife == InitRings /\ [][LifeNext]_vars

\* The request to exit that the workers' loops test for: running is set to
\* 0.  No line of the driver does it; the step is the one the design
\* describes for teardown.
ClearRunning ==
    /\ running = 1
    /\ running' = 0
    /\ UNCHANGED <<ringVars, driver, clockVars, pc, call, buf, acc, fd,
                   histVars, auxVars>>

\* what the ingress worker does by itself, its calls returning: a read
\* returns when there is a byte to read or the far end has closed
IngressWork ==
    \/ InConnect \/ InBackoff \/ InReadFrame \/ FramedReadHeader
    \/ FramedReadLength \/ FramedReadPayload \/ FramedReadEof \/ InDecode
    \/ RingWriteLoadHead("ingress") \/ RingWriteLoadTail("ingress")
    \/ RingWriteCopy("ingress") \/ RingWriteStore("ingress") \/ InClose

StopNext ==
    \/ WireNext
    \/ ClearRunning

\* The ingress path with the request to exit coming at any moment; the
\* worker thread goes on whenever it can.
SpecStop == InitRings /\ [][StopNext]_vars /\ WF_vars(IngressWork)

(***************************************************************************)
(* driver_WillDoIOOperation (lines 1369-1387) and the dispatch of          *)
(* driver_DoIOOperation (1394-1412) over the objects and the operations    *)
(* of an IO cycle.                                                         *)
(***************************************************************************)
kObjectID_OutputDevice == 2
kObjectID_InputDevice == 3
kObjectID_InputVolume == 7
\* the plug-in's objects, kAudioObjectUnknown (0) and an id it does not have
ObjectIDs == 0..(kObjectID_InputVolume + 1)
\* kAudioServerPlugInIOOperation...
IoOperations == {"Thread", "Cycle", "ReadInput", "ConvertInput",
                 "ProcessInput", "ProcessOutput", "MixOutput", "ProcessMix",
                 "ConvertMix", "WriteMix"}

is_output_device(id) == id = kObjectID_OutputDevice

\* a helper that takes both devices for the input device
is_device(id) == id = kObjectID_OutputDevice \/ id = kObjectID_InputDevice

is_input_device(id) == id = kObjectID_InputDevice

\* *outWill = false; *outIsInput = false; then the two tests
WillDo(id, op) ==
    IF is_output_device(id)
    THEN [will |-> op = "WriteMix", isInput |-> FALSE]
    ELSE IF is_input_device(id)
    THEN [will |-> op = "ReadInput", isInput |-> op = "ReadInput"]
    ELSE [will |-> FALSE, isInput |-> FALSE]

\* the branch driver_DoIOOperation takes
DoIOBranch(id, op) ==
    IF is_output_device(id) /\ op = "WriteMix" THEN "ring_write"
    ELSE IF is_input_device(id) /\ op = "ReadInput" THEN "ring_read"
    ELSE "none"

WillDoIOOperation(id, op) ==
    /\ lastIo' = [fn |-> "WillDoIOOperation", id |-> id, op |-> op,
                  will |-> WillDo(id, op).will,
                  isInput |-> WillDo(id, op).isInput,
                  status |-> kAudioHardwareNoError]
    /\ UNCHANGED <<ringVars, running, driver, clockVars, pc, call, buf, acc,
                   fd, histVars, volVars, egressVars, wireVars, lifeVars,
                   initVars, gainVars, wrap>>

DoIOOperation(id, op) ==
    \/ /\ DoIOBranch(id, op) = "ring_write"
       /\ DoIOWriteMix
    \/ /\ DoIOBranch(id, op) = "ring_read"
       /\ DoIOReadInput
    \/ /\ DoIOBranch(id, op) = "none"
       /\ driver = "ready"
       /\ lastIo' = [fn |-> "DoIOOperation", id |-> id, op |-> op,
                     will |-> FALSE, isInput |-> FALSE,
                     status |-> kAudioHardwareNoError]
       /\ UNCHANGED <<ringVars, running, driver, clockVars, pc, call, buf,
                      acc, fd, histVars, volVars, egressVars, wireVars,
                      lifeVars, initVars, gainVars, wrap>>

\* The host asks about and runs any operation on any object, on the IO
\* thread of either device; no worker takes part, so the input ring stays
\* empty and every ring_read returns 0 before its copies.
IoNext ==
    \/ Initialize
    \/ \E id \in ObjectIDs, op \in IoOperations : WillDoIOOperation(id, op)
    \/ \E id \in ObjectIDs, op \in IoOperations : DoIOOperation(id, op)
    \/ DoIOWriteMixReturn
    \/ DoIOReadInputReturn
    \/ RingWriteLoadHead("ioOut")
    \/ RingWriteLoadTail("ioOut")
    \/ RingWriteCopy("ioOut")
    \/ RingWriteStore("ioOut")
    \/ RingReadLoadHead("ioIn")
    \/ RingReadLoadTail("ioIn")

SpecIO == InitRings /\ [][IoNext]_vars

\* what the egress worker does by itself, its calls returning
EgressWork ==
    \/ OutConnect \/ OutBackoff \/ OutDrain \/ OutAccumulate \/ OutEncode
    \/ OutSend \/ OutClose
    \/ RingReadLoadHead("egress") \/ RingReadLoadTail("egress")
    \/ RingReadCopy("egress") \/ RingReadStore("egress")

\* The output path: the output device's IO thread, outputRing, the egress
\* worker.
EgressNext ==
    \/ Initialize
    \/ DoIOWriteMix
    \/ DoIOWriteMixReturn
    \/ RingWriteLoadHead("ioOut")
    \/ RingWriteLoadTail("ioOut")
    \/ RingWriteCopy("ioOut")
    \/ RingWriteStore("ioOut")
    \/ OutConnect
    \/ OutBackoff
    \/ OutDrain
    \/ RingReadLoadHead("egress")
    \/ RingReadLoadTail("egress")
    \/ RingReadCopy("egress")
    \/ RingReadStore("egress")
    \/ OutAccumulate
    \/ OutEncode
    \/ OutSend
    \/ OutClose

\* The worker thread goes on whenever it can (its usleep ends, its calls
\* return); nothing is assumed of the host's IO thread.
SpecEgress == InitRings /\ [][EgressNext]_vars /\ WF_vars(EgressWork)

(***************************************************************************)
(* The gain and the conversion loop of each worker, one load and one       *)
(* sample per step: lines 313-324 (egress) and 387-394 (ingress).          *)
(***************************************************************************)
NUM_CHANNELS == 2

DeviceOf(w) == IF w = "egress" THEN "output" ELSE "input"

\* where the worker is when it reaches `float vol = atomic_load(..)`, and
\* where it is after the last sample of the loop
GainStart(w) == IF w = "egress" THEN "o_encode" ELSE "g_vol"
GainEnd(w) == IF w = "egress" THEN "g_done" ELSE "w_load_head"
GainMute(w) == IF w = "egress" THEN "o_mute" ELSE "g_mute"
GainLoop(w) == IF w = "egress" THEN "o_scale" ELSE "g_scale"

\* the samples of the loop: OPUS_FRAME_SIZE * NUM_CHANNELS in the egress
\* worker, nsamples * NUM_CHANNELS in the ingress worker
SamplesOf(w) ==
    IF w = "egress" THEN OPUS_FRAME_SIZE * NUM_CHANNELS
    ELSE call[w].req * NUM_CHANNELS

\* float vol = atomic_load_explicit(&drv->outputVolume, relaxed);
GainLoadVolume(w) ==
    /\ pc[w] = GainStart(w)
    /\ gainLoc' = [gainLoc EXCEPT ![w].vol = volume[DeviceOf(w)]]
    /\ pc' = [pc EXCEPT ![w] = GainMute(w)]
    /\ UNCHANGED <<ringVars, running, driver, clockVars, call, buf, acc, fd,
                   histVars, volVars, egressVars, wireVars, lifeVars,
                   initVars, lastIo, scaled, wrap>>

\* int mute = atomic_load_explicit(&drv->outputMute, relaxed);
\* float gain = mute ? 0.0f : vol;
GainLoadMute(w) ==
    /\ pc[w] = GainMute(w)
    /\ LET m == mute[DeviceOf(w)]
       IN gainLoc' = [gainLoc EXCEPT ![w].mute = m,
                                     ![w].gain = IF m # 0 THEN 0
                                                 ELSE gainLoc[w].vol]
    /\ scaled' = [scaled EXCEPT ![w] = <<>>]
    /\ pc' = [pc EXCEPT ![w] = GainLoop(w)]
    /\ UNCHANGED <<ringVars, running, driver, clockVars, call, buf, acc, fd,
                   histVars, volVars, egressVars, wireVars, lifeVars,
                   initVars, lastIo, wrap>>

\* a loop that loads the volume again for every sample
GainReloaded(g, dev) == IF mute[dev] # 0 THEN 0 ELSE volume[dev]

\* the `gain` in pcm[i] * gain * 32767.0f and in (pcm16[i] / 32768.0f) * gain
GainForSample(g, dev) == g

\* one pass of the for loop, or its exit after the last sample
GainScale(w) ==
    /\ pc[w] = GainLoop(w)
    /\ IF Len(scaled[w]) < SamplesOf(w)
       THEN /\ scaled' = [scaled EXCEPT ![w] =
                   Append(@, GainForSample(gainLoc[w].gain, DeviceOf(w)))]
            /\ UNCHANGED pc
       ELSE /\ pc' = [pc EXCEPT ![w] = GainEnd(w)]
            /\ UNCHANGED scaled
    /\ UNCHANGED <<ringVars, running, driver, clockVars, call, buf, acc, fd,
                   histVars, volVars, egressVars, wireVars, lifeVars,
                   initVars, lastIo, gainLoc, wrap>>

\* the values the host sets while a worker converts
GainInputs == {250000, One}

\* Each path with its worker's conversion loop taken sample by sample, and
\* the host setting the volume of the path's device at any moment.
GainNext ==
    \/ Initialize
    \/ \E dev \in Devices, v \in GainInputs :
          Followed(dev) /\ SetScalarValue(dev, v, TRUE)
    \/ DoIOWriteMix
    \/ DoIOWriteMixReturn
    \/ RingWriteLoadHead("ioOut")
    \/ RingWriteLoadTail("ioOut")
    \/ RingWriteCopy("ioOut")
    \/ RingWriteStore("ioOut")
    \/ OutConnect
    \/ OutBackoff
    \/ OutDrain
    \/ RingReadLoadHead("egress")
    \/ RingReadLoadTail("egress")
    \/ RingReadCopy("egress")
    \/ RingReadStore("egress")
    \/ OutAccumulate
    \/ \E w \in Workers : GainLoadVolume(w)
    \/ \E w \in Workers : GainLoadMute(w)
    \/ \E w \in Workers : GainScale(w)
    \/ OutEncodeFrom(GainEnd("egress"))
    \/ OutSend
    \/ OutClose
    \/ InConnect
    \/ InBackoff
    \/ InFrameTo(GainStart("ingress"))
    \/ RingWriteLoadHead("ingress")
    \/ RingWriteLoadTail("ingress")
    \/ RingWriteCopy("ingress")
    \/ RingWriteStore("ingress")
    \/ InClose

SpecGain == InitRings /\ [][GainNext]_vars

\* The connect attempts of both workers: the output path as in EgressNext,
\* and an ingress worker whose connection fails in read() before a byte
\* arrives.
ConnectNext ==
    \/ EgressNext
    \/ InConnect
    \/ InBackoff
    \/ InReadFrame
    \/ FramedReadError
    \/ InClose

\* Each worker thread goes on whenever close(fd), sleep(1) or vsock_connect
\* can return; nothing else is assumed.
SpecConnect ==
    InitRings /\ [][ConnectNext]_vars
              /\ WF_vars(EgressReconnect) /\ WF_vars(IngressReconnect)

\* Both workers' connections with the request to exit coming at any moment.
SocketsNext ==
    \/ ConnectNext
    \/ ClearRunning

SpecSockets == InitRings /\ [][SocketsNext]_vars

\* The ingress path with a far end that writes frames and then closes the
\* connection, between two frames or part-way through one.
DrainNext ==
    \/ Initialize
    \/ InConnect
    \/ InBackoff
    \/ InReadFrame
    \/ FramedReadHeader
    \/ FramedReadLength
    \/ FramedReadPayload
    \/ FramedReadEof
    \/ InDecode
    \/ RingWriteLoadHead("ingress")
    \/ RingWriteLoadTail("ingress")
    \/ RingWriteCopy("ingress")
    \/ RingWriteStore("ingress")
    \/ InClose
    \/ FramedWriteBegin
    \/ FramedWriteHeader
    \/ FramedWritePayload
    \/ FramedWriteFail
    \/ PeerClose

\* The worker thread goes on whenever a call of it can return; nothing is
\* assumed of the far end.
SpecDrain == InitRings /\ [][DrainNext]_vars /\ WF_vars(IngressWork)

(***************************************************************************)
(* Properties of the workers' reconnection.                                *)
(***************************************************************************)
AtClose(w) == pc[w] = (IF w = "egress" THEN "o_close" ELSE "i_close")
InOuterLoop(w) ==
    \/ AtClose(w)
    \/ pc[w] = (IF w = "egress" THEN "o_backoff" ELSE "i_backoff")
    \/ pc[w] = (IF w = "egress" THEN "o_outer" ELSE "i_outer")
Started(w) == pc[w] # "none"

\* from a transport error to the next vsock_connect the worker is at
\* close(fd), in sleep(1) or at the outer loop's test, with its fd closed
\* once past close(fd); inside the inner loop the connection is one made
\* after the last error
ReconnectsInv ==
    \A w \in Workers :
      /\ event[w] = "error" =>
           /\ InOuterLoop(w)
           /\ ~AtClose(w) => fd[w] = "none"
      /\ (Started(w) /\ ~InOuterLoop(w) /\ running = 1) =>
           (event[w] = "attempt" /\ fd[w] = "open")

\* C18: while running is set, after a read error of the ingress worker or a
\* write error of the egress worker the worker closes that connection, does
\* not use it again, does not exit, and (the worker thread going on when it
\* can) makes a new connect attempt.
Reconnects ==
    /\ []ReconnectsInv
    /\ \A w \in Workers :
         (event[w] = "error") ~> (event[w] = "attempt" \/ running = 0)

\* the egress worker is back in its inner loop on a connection made after a
\* framed_write failed
ReconnectsWitness ==
    /\ errAt >= 0
    /\ event["egress"] = "attempt"
    /\ fd["egress"] = "open"
    /\ pc["egress"] = "o_inner"


(***************************************************************************)
(* Properties of shutdown.                                                 *)
(***************************************************************************)
\* C19: once running is cleared a worker closes its connection, if it has
\* one, and exits, whatever it was doing, also when connected to a far end
\* that sends nothing; stated for the ingress worker.
WorkersExit ==
    (running = 0 /\ Started("ingress")) ~>
        (pc["ingress"] = "i_exit" /\ fd["ingress"] = "none")

\* C20: when the host has released its last reference after a successful
\* driver_Initialize, running is cleared (the workers are asked to exit).
TeardownStopsWorkers ==
    (driver = "ready" /\ lastOp.op = "Release" /\ refCount = 0) => running = 0


(***************************************************************************)
(* Properties of driver_Initialize.                                        *)
(***************************************************************************)
\* C21: when opus_encoder_create or opus_decoder_create fails,
\* driver_Initialize returns an error status, running stays 0, no worker
\* thread is started and no codec state stays allocated (the encoder made
\* before a decoder failure is destroyed).
InitFailure ==
    (initResult.encErr = "fail" \/ initResult.decErr = "fail") =>
        /\ initResult.status = kAudioHardwareUnspecifiedError
        /\ initResult.status # kAudioHardwareNoError
        /\ running = 0
        /\ \A w \in Workers : pc[w] = "none"
        /\ opusEncoder = "null"
        /\ opusDecoder = "null"

\* driver_Initialize has returned after the decoder could not be created,
\* the encoder having been
InitFailureWitness ==
    /\ initResult.encErr = "ok"
    /\ initResult.decErr = "fail"
    /\ lastOp.op = "Initialize"
    /\ driver = "failed"


(***************************************************************************)
(* Properties of the ingress ring across connections.                      *)
(***************************************************************************)
Disconnected(w) == fd[w] = "none" \/ event[w] = "error"

\* from the failure of a framed_read to the next connection the worker
\* stores no head
HeadStops == Disconnected("ingress") => head'["inputRing"] = head["inputRing"]

\* a ring_write of the worker that found free space stores a larger head
HeadResumes ==
    /\ (pc["ingress"] = "w_load_tail"
          /\ RingFree(call["ingress"].h, tail["inputRing"]) > 0)
        => pc'["ingress"] \in {"w_load_tail", "w_copy"}
    /\ (pc["ingress"] \in {"w_copy", "w_store"} /\ head' # head)
        => head'["inputRing"] > head["inputRing"]
    /\ (pc["ingress"] = "w_store" /\ pc'["ingress"] # "w_store")
        => head'["inputRing"] > head["inputRing"]

\* C22: once the ingress connection is lost the ingress ring's head comes to
\* a stop (the worker gets to the failed read and closes) and stays as it
\* is until a new connection is made; on the new connection a packet that
\* decodes while the ring has free space advances head again.
HeadStopsAndResumes ==
    /\ [][HeadStops]_vars
    /\ [][HeadResumes]_vars
    /\ (peer.st = "closed") ~> (fd["ingress"] = "none")

\* a frame was lost with its connection; on the next connection the only
\* packet decoded so far was written to the ring and moved head
HeadStopsAndResumesWitness ==
    /\ wireCount = 2
    /\ fed.count = 1
    /\ stream = <<>> /\ inFlight = <<>> /\ peer.st = "idle"
    /\ rd.res = "ok"
    /\ pc["ingress"] = "i_inner"
    /\ event["ingress"] = "attempt"
    /\ head["inputRing"] > rd.head0


(***************************************************************************)
(* Properties of the egress worker's framing.                              *)
(***************************************************************************)
NoEgressError == errAt < 0 /\ dropped.count = 0
TakenFrames == Len(readOut["outputRing"])

\* without an encoder or a write error, the wire frames written are never
\* more than the whole codec frames taken from the ring, and are exactly
\* that many whenever the worker is at the top of its inner loop
WireFrameCount ==
    NoEgressError =>
        /\ sent.count <= TakenFrames \div OPUS_FRAME_SIZE
        /\ pc["egress"] = "o_inner" =>
             sent.count = TakenFrames \div OPUS_FRAME_SIZE

\* a whole codec frame is in the ring, or taken from it, with no wire frame
\* written for it yet
FramePending ==
    Len(accepted["outputRing"]) >= OPUS_FRAME_SIZE * (sent.count + 1)

\* C23: with the egress worker connected, running set and neither an encoder
\* nor a write error, the wire frames written number floor(frames taken from
\* the ring / OPUS_FRAME_SIZE), and the worker (its thread going on when it
\* can) always gets to write the wire frame of every OPUS_FRAME_SIZE frames
\* that were written to the ring.
OneWireFramePerCodecFrame ==
    /\ []WireFrameCount
    /\ []<>(~FramePending \/ ~NoEgressError \/ fd["egress"] # "open")

\* one frame more than a codec frame was taken from the ring and one wire
\* frame was written, with no error so far
OneWireFramePerCodecFrameWitness ==
    /\ NoEgressError
    /\ fd["egress"] = "open"
    /\ pc["egress"] = "o_inner"
    /\ TakenFrames = OPUS_FRAME_SIZE + 1
    /\ sent.count = 1


(***************************************************************************)
(* Properties of the IO operations the handler accepts.                    *)
(***************************************************************************)
WillDoAnswers ==
    /\ lastIo.fn = "WillDoIOOperation" =>
         /\ lastIo.will <=>
               \/ (lastIo.id = kObjectID_OutputDevice /\ lastIo.op = "WriteMix")
               \/ (lastIo.id = kObjectID_InputDevice /\ lastIo.op = "ReadInput")
         /\ lastIo.isInput <=>
               (lastIo.id = kObjectID_InputDevice /\ lastIo.op = "ReadInput")
    /\ \A id \in ObjectIDs, op \in IoOperations :
         ~WillDo(id, op).will => DoIOBranch(id, op) = "none"
    /\ lastIo.fn = "DoIOOperation" =>
         /\ ~WillDo(lastIo.id, lastIo.op).will
         /\ lastIo.status = kAudioHardwareNoError

\* a call of driver_DoIOOperation for a pair that WillDoIOOperation
\* declines, and a call of driver_WillDoIOOperation, are steps that leave
\* the rings and the IO threads as they were
DeclinedLeavesRings ==
    lastIo' # lastIo => UNCHANGED <<samples, head, tail, pc, call, buf>>

\* a step that starts a ring_write or a ring_read out of the handler is
\* for a pair that WillDoIOOperation accepts
AcceptedStartsCall ==
    \A th \in IoThreads :
      (pc[th] = "idle" /\ pc'[th] # "idle") =>
        \E id \in ObjectIDs, op \in IoOperations :
          /\ WillDo(id, op).will
          /\ DoIOBranch(id, op) = (IF th = "ioOut" THEN "ring_write"
                                   ELSE "ring_read")
          /\ call'[th].rb = (IF WillDo(id, op).isInput THEN "inputRing"
                             ELSE "outputRing")

\* C24: driver_WillDoIOOperation answers true exactly for (output device,
\* WriteMix) and (input device, ReadInput), with *outIsInput true only for
\* the latter; for every pair it declines driver_DoIOOperation takes
\* neither branch and leaves both rings as they were.
WillDoMatchesDoIO ==
    /\ []WillDoAnswers
    /\ [][DeclinedLeavesRings]_vars
    /\ [][AcceptedStartsCall]_vars

\* frames are in the output ring and the handler has just been called for
\* ReadInput on the output device, which it declines
WillDoMatchesDoIOWitness ==
    /\ lastIo.fn = "DoIOOperation"
    /\ lastIo.id = kObjectID_OutputDevice
    /\ lastIo.op = "ReadInput"
    /\ head["outputRing"] > 0
    /\ pc["ioOut"] = "idle"

(***************************************************************************)
(* The two sides of one ring while both are copying, lines 113-148.        *)
(***************************************************************************)
\* thread th is inside the copies of a ring_read / of a ring_write
Reading(th) == pc[th] \in {"r_copy", "r_store"}
Writing(th) == pc[th] \in {"w_copy", "w_store"}

\* the frame indices and the slots of one call: all of them, and those its
\* memcpy has still to move
ReadFrames(th) == {call[th].t + i : i \in 0..(call[th].count - 1)}
ReadFramesLeft(th) ==
    {call[th].t + i : i \in call[th].copied..(call[th].count - 1)}
ReadSlotsLeft(th) ==
    {ReadSlot(call[th].t, call[th].count, i) :
        i \in call[th].copied..(call[th].count - 1)}
ReadSlots(th) ==
    {ReadSlot(call[th].t, call[th].count, i) : i \in 0..(call[th].count - 1)}
WriteFrames(th) == {call[th].h + i : i \in 0..(call[th].count - 1)}
WriteSlots(th) ==
    {WriteSlot(call[th].h, call[th].count, i) : i \in 0..(call[th].count - 1)}
WriteSlotsLeft(th) ==
    {WriteSlot(call[th].h, call[th].count, i) :
        i \in call[th].copied..(call[th].count - 1)}

\* every frame a ring_read has still to copy is below the published head,
\* and none of its slots is a slot of a ring_write that has not yet stored
\* head
ReadsOnlyPublished ==
    \A r \in Threads :
      pc[r] = "r_copy" =>
        /\ \A i \in ReadFramesLeft(r) : i < head[call[r].rb]
        /\ \A w \in Threads :
             (Writing(w) /\ call[w].rb = call[r].rb) =>
               /\ ReadSlotsLeft(r) \cap WriteSlots(w) = {}
               /\ \A j \in WriteFrames(w) : j >= head[call[r].rb]

\* head changes only in the step after the last copy of a ring_write call,
\* to that call's h + count
HeadStoredAfterCopies ==
    \A rb \in Rings :
      head'[rb] # head[rb] =>
        \E w \in Threads :
          /\ pc[w] = "w_store" /\ pc'[w] = AfterCall(w)
          /\ call[w].rb = rb
          /\ call[w].copied = call[w].count
          /\ head'[rb] = call[w].h + call[w].count

\* C25: with ring_write and ring_read as per-frame copies, the consumer
\* never copies out a slot the producer has not finished writing: every
\* frame index ring_read copies is below head as published, and head is
\* stored only after all copies of that ring_write call.
ConsumerReadsFinishedSlots ==
    /\ []ReadsOnlyPublished
    /\ [][HeadStoredAfterCopies]_vars

\* a ring_read has a frame to copy out of a ring that has wrapped while a
\* ring_write on that ring is between two of its copies
ConsumerReadsFinishedSlotsWitness ==
    \E r, w \in Threads :
      /\ pc[r] = "r_copy" /\ pc[w] = "w_copy"
      /\ call[r].rb = call[w].rb
      /\ call[w].copied >= 1
      /\ call[w].h >= RING_CAPACITY

\* every slot a ring_write has still to write belongs to a frame index in
\* [head, t + RING_CAPACITY) for the tail t it loaded, t is not ahead of
\* the stored tail, and none of these slots is a slot of a ring_read that
\* has not yet stored tail
WritesOnlyFree ==
    \A w \in Threads :
      pc[w] = "w_copy" =>
        /\ call[w].h = head[call[w].rb]
        /\ call[w].t <= tail[call[w].rb]
        /\ \A j \in WriteFrames(w) :
             j >= head[call[w].rb] /\ j < call[w].t + RING_CAPACITY
        /\ \A r \in Threads :
             (Reading(r) /\ call[r].rb = call[w].rb) =>
               /\ WriteSlotsLeft(w) \cap ReadSlots(r) = {}
               /\ \A i \in ReadFrames(r) : i >= tail[call[w].rb]

\* tail changes only in the step after the last copy of a ring_read call,
\* to that call's t + count
TailStoredAfterCopies ==
    \A rb \in Rings :
      tail'[rb] # tail[rb] =>
        \E r \in Threads :
          /\ pc[r] = "r_store" /\ pc'[r] = AfterCall(r)
          /\ call[r].rb = rb
          /\ call[r].copied = call[r].count
          /\ tail'[rb] = call[r].t + call[r].count

\* C26: with ring_write and ring_read as per-frame copies, the producer
\* never overwrites a slot whose frame the consumer has not finished
\* copying out: ring_write writes only slots of frame indices in
\* [head, tail + RING_CAPACITY) for the tail it observed, and tail is
\* stored only after all copies of that ring_read call.
ProducerWritesFreeSlots ==
    /\ []WritesOnlyFree
    /\ [][TailStoredAfterCopies]_vars

\* a ring_write fills the last free slots of a wrapped ring, up to the
\* tail it observed, while a ring_read on that ring is in its copies
ProducerWritesFreeSlotsWitness ==
    \E r, w \in Threads :
      /\ pc[w] = "w_copy" /\ Reading(r)
      /\ call[r].rb = call[w].rb
      /\ call[w].h + call[w].count = call[w].t + RING_CAPACITY
      /\ call[w].t >= 1
      /\ call[r].copied >= 1

(***************************************************************************)
(* The encoder's error path in the egress worker, lines 326-332.           *)
(***************************************************************************)
FramesOf(pcm) == {pcm[i] : i \in 1..Len(pcm)}

\* the step in which opus_encode returns a negative value: nothing is
\* written, acc becomes 0, the connection is left open and the worker is
\* back at the top of its inner loop
DropStep ==
    dropped'.count # dropped.count =>
      /\ pc["egress"] = "o_encode" /\ acc = OPUS_FRAME_SIZE
      /\ dropped'.pcm = SubSeq(buf["egress"], 1, OPUS_FRAME_SIZE)
      /\ sent' = sent
      /\ acc' = 0
      /\ fd["egress"] = "open" /\ fd' = fd
      /\ event' = event
      /\ pc'["egress"] = "o_inner"

\* the ring_read that follows asks for a whole codec frame at the start of
\* the buffer
NextFramesAfterDrop ==
    (pc["egress"] = "o_inner" /\ pc'["egress"] = "r_load_head"
       /\ dropped.count > 0 /\ dropped.pcm = buf["egress"]) =>
      /\ call'["egress"].req = OPUS_FRAME_SIZE
      /\ call'["egress"].off = 0

\* no frame of the dropped accumulator is in a wire frame
DroppedNeverSent ==
    (dropped.count > 0 /\ sent.count > 0) =>
      FramesOf(dropped.pcm) \cap FramesOf(sent.pcm) = {}

\* C27: when opus_encode returns a negative result, no wire frame is
\* written for that accumulator, acc is reset to 0 so that its
\* OPUS_FRAME_SIZE frames are never sent, the connection stays open, and
\* the worker goes on with the next frames from the ring.
EncodeErrorDropsFrame ==
    /\ [][DropStep]_vars
    /\ [][NextFramesAfterDrop]_vars
    /\ []DroppedNeverSent

\* a codec frame was dropped and the next one has been sent on the same
\* connection
EncodeErrorDropsFrameWitness ==
    /\ dropped.count = 1
    /\ sent.count = 1
    /\ FramesOf(sent.pcm) # {}
    /\ \A x \in FramesOf(dropped.pcm), y \in FramesOf(sent.pcm) : x < y
    /\ errAt = -1
    /\ fd["egress"] = "open"

(***************************************************************************)
(* The decoder's error path in the ingress worker, lines 380-385.          *)
(***************************************************************************)
\* the step in which opus_decode returns a negative value (the step out of
\* the decode that produces no frames): the one wire frame it was given is
\* gone, the ring, the descriptor and the bytes still to be read are as
\* they were, and the worker is at the framed_read of the next wire frame
DecodeErrorStep ==
    (fed' # fed /\ offered' = offered) =>
      /\ pc["ingress"] = "i_decode"
      /\ fed'.count = fed.count + 1
      /\ UNCHANGED <<samples, head, tail>>
      /\ fd["ingress"] = "open" /\ fd' = fd
      /\ stream' = stream /\ inFlight' = inFlight /\ peer' = peer
      /\ event' = event
      /\ pc'["ingress"] = "i_inner"

\* framed_read is entered only on an open descriptor
ReadsOpenConnection ==
    pc["ingress"] \in {"fr_hdr", "fr_len", "fr_payload", "i_decode"} =>
      fd["ingress"] = "open"

\* C28: when opus_decode returns a negative result exactly that one wire
\* frame is discarded: the input ring's head, tail and contents are
\* unchanged, the connection stays open, and the next wire frame is read
\* from the same connection.
DecodeErrorDropsFrame ==
    /\ [][DecodeErrorStep]_vars
    /\ []ReadsOpenConnection

\* of two wire frames read without a read error the first was refused by
\* the decoder and the second has been decoded and written to the ring
DecodeErrorDropsFrameWitness ==
    /\ fed.count = 2
    /\ rd.fed0 = 1
    /\ offered["inputRing"] <= OPUS_FRAME_SIZE
    /\ head["inputRing"] > rd.head0
    /\ rd.head0 = 0
    /\ event["ingress"] = "attempt"
    /\ fd["ingress"] = "open"

(***************************************************************************)
(* Failed connect attempts, lines 199-215, 293-298 and 365-370.            *)
(***************************************************************************)
Backoff(w) == IF w = "egress" THEN "o_backoff" ELSE "i_backoff"
Outer(w) == IF w = "egress" THEN "o_outer" ELSE "i_outer"
Inner(w) == IF w = "egress" THEN "o_inner" ELSE "i_inner"
Exited(w) == pc[w] = (IF w = "egress" THEN "o_exit" ELSE "i_exit")

\* the worker is in the sleep(1) that follows a vsock_connect that failed
ConnectFailed(w) == pc[w] = Backoff(w) /\ event[w] = "attempt"

\* outside the inner loop and past close(fd) the worker holds no
\* descriptor, and while running is set it has not left its outer loop
NoDescriptorLeft ==
    \A w \in Workers :
      /\ (pc[w] \in {Backoff(w), Outer(w)} \/ Exited(w)) => fd[w] = "none"
      /\ running # 0 => ~Exited(w)

\* the step of a vsock_connect made while running is set: it ends in the
\* inner loop with the descriptor open or in sleep(1) with none
ConnectStep ==
    \A w \in Workers :
      (pc[w] = Outer(w) /\ pc'[w] # Outer(w) /\ running # 0) =>
        /\ event'[w] = "attempt"
        /\ \/ pc'[w] = Inner(w) /\ fd'[w] = "open"
           \/ pc'[w] = Backoff(w) /\ fd'[w] = "none"

\* the step that ends sleep(1): back at the test of the outer loop
SleepStep ==
    \A w \in Workers :
      (pc[w] = Backoff(w) /\ pc'[w] # Backoff(w)) =>
        pc'[w] = Outer(w) /\ fd'[w] = "none" /\ event'[w] = event[w]

\* C29: while running is set a failed connect attempt (socket() or
\* connect() failing) never makes a worker exit and never leaves a
\* descriptor open: the worker sleeps and tries again, for any number of
\* consecutive failures.
FailedConnectRetries ==
    /\ []NoDescriptorLeft
    /\ [][ConnectStep]_vars
    /\ [][SleepStep]_vars
    /\ \A w \in Workers :
         /\ ConnectFailed(w) ~> (pc[w] = Outer(w) \/ running = 0)
         /\ (pc[w] = Outer(w)) ~> (pc[w] # Outer(w))

\* the egress worker sleeps after a vsock_connect that failed, which it
\* made after a connection that had carried a wire frame was lost
FailedConnectRetriesWitness ==
    /\ ConnectFailed("egress")
    /\ fd["egress"] = "none"
    /\ errAt >= 0
    /\ sent.count >= 1
    /\ running = 1

(***************************************************************************)
(* The gain of one codec frame, lines 313-324 and 387-394.                 *)
(***************************************************************************)
InConversion(w) == pc[w] = GainLoop(w) \/ pc[w] = GainEnd(w)

\* every sample the conversion loop has done for the codec frame in hand
\* was scaled by the gain computed before the loop, and past the loop all
\* samples of the frame have been done
OneGain ==
    \A w \in Workers :
      InConversion(w) =>
        /\ \A i \in 1..Len(scaled[w]) : scaled[w][i] = gainLoc[w].gain
        /\ pc[w] = GainEnd(w) => Len(scaled[w]) = SamplesOf(w)

\* a set of the volume control changes no local of a worker and no sample
\* already converted
SetLeavesFrame ==
    (driver = "ready" /\ \E dev \in Devices : volume'[dev] # volume[dev]) =>
      gainLoc' = gainLoc /\ scaled' = scaled /\ pc' = pc

\* C30: a volume change takes effect only at a codec frame boundary: for
\* every interleaving of SetPropertyData on a volume control with a
\* worker's codec step, all samples of one codec frame are scaled by one
\* and the same gain value.
GainPerCodecFrame ==
    /\ []OneGain
    /\ [][SetLeavesFrame]_vars

\* the egress worker has converted a whole codec frame with the gain 1.0
\* although the volume was set to 0.25 after the first sample
GainPerCodecFrameWitness ==
    /\ pc["egress"] = GainEnd("egress")
    /\ Len(scaled["egress"]) = OPUS_FRAME_SIZE * NUM_CHANNELS
    /\ scaled["egress"][1] = One
    /\ volume["output"] = 250000

(***************************************************************************)
(* A decoded packet that does not fit the input ring, lines 392-396.       *)
(***************************************************************************)
\* the step in which the ingress worker's ring_write returns: from the
\* store of head, or from the load of tail when no frame fits
IngressWriteReturns ==
    \/ pc["ingress"] = "w_store" /\ pc'["ingress"] # "w_store"
    \/ pc["ingress"] = "w_load_tail"
         /\ pc'["ingress"] \notin {"w_load_tail", "w_copy"}

\* ring_write returns after one pass: it has taken the first `free` frames
\* of the packet (all of them if they fit), and the worker is at the
\* framed_read of the next wire frame on the same connection
ShortWriteStep ==
    IngressWriteReturns =>
      LET c == call["ingress"]
          free == RING_CAPACITY - (c.h - tail["inputRing"])
          n == IF pc["ingress"] = "w_store" THEN c.count ELSE 0
      IN /\ pc'["ingress"] = "i_inner"
         /\ call'["ingress"].calls = 1
         /\ call'["ingress"].ret = n
         /\ pc["ingress"] = "w_load_tail" => (c.req > 0 /\ free = 0)
         /\ pc["ingress"] = "w_store" =>
              /\ n = Min(c.req, RING_CAPACITY - (c.h - c.t))
              /\ accepted'["inputRing"] =
                    accepted["inputRing"] \o SubSeq(buf["ingress"], 1, n)
              /\ head'["inputRing"] = c.h + n
         /\ fd' = fd /\ fd["ingress"] = "open"
         /\ event' = event

\* the frames of the last packet that did not fit are in no ring_write
RestDropped ==
    (pc["ingress"] = "i_inner" /\ call["ingress"].calls = 1) =>
      \A k \in (call["ingress"].ret + 1)..call["ingress"].req :
        \A j \in 1..Len(accepted["inputRing"]) :
          accepted["inputRing"][j] # buf["ingress"][k]

\* C31: when a decoded packet of n frames meets an input ring with fewer
\* than n free frames, the ingress worker writes only the first `free`
\* frames, drops the rest, does not block or retry, keeps the connection
\* open and goes on to read the next wire frame.
ShortWriteDropsRest ==
    /\ [][ShortWriteStep]_vars
    /\ []RestDropped

\* a packet of two frames met a ring with one free frame: one frame was
\* written, the ring is full and the worker is back at framed_read
ShortWriteDropsRestWitness ==
    /\ pc["ingress"] = "i_inner"
    /\ call["ingress"].req = 2
    /\ call["ingress"].ret = 1
    /\ call["ingress"].h - call["ingress"].t = RING_CAPACITY - 1
    /\ head["inputRing"] = call["ingress"].h + 1
    /\ fd["ingress"] = "open"

(***************************************************************************)
(* The accumulator across a reconnect of the egress worker, lines 289-347. *)
(***************************************************************************)
\* the frames of the wire frame whose framed_write failed last: the last
\* OPUS_FRAME_SIZE frames the worker had read from the ring by then
FailedFrames ==
    SubSeq(readOut["outputRing"], errAt - OPUS_FRAME_SIZE + 1, errAt)

\* a write has failed and no wire frame was written since
NothingSentSince == errAt >= 0 /\ sent.err # errAt

\* the encoder has not refused these frames in the meantime (a refusal
\* is the last one as long as no further frame was read from the ring)
NotRefused ==
    /\ Len(readOut["outputRing"]) = errAt
    /\ ~(dropped.count > 0 /\ dropped.pcm = FailedFrames)

\* the step in which framed_write fails leaves acc and pcm as they are
WriteFailureStep ==
    (pc["egress"] = "o_send" /\ pc'["egress"] # "o_send" /\ sent' = sent) =>
      /\ acc = OPUS_FRAME_SIZE /\ acc' = acc
      /\ buf'["egress"] = buf["egress"]
      /\ errAt' >= OPUS_FRAME_SIZE
      /\ buf["egress"] =
           SubSeq(readOut["outputRing"], errAt' - OPUS_FRAME_SIZE + 1, errAt')

\* from the failure to the first wire frame after it the accumulator is
\* full and holds the frames of the failed write
AccumulatorKept ==
    (NothingSentSince /\ NotRefused) =>
      /\ acc = OPUS_FRAME_SIZE
      /\ buf["egress"] = FailedFrames

\* the first ring_read of the new connection asks for 0 frames
ZeroRead ==
    (NothingSentSince /\ NotRefused
       /\ pc["egress"] = "o_inner" /\ pc'["egress"] = "r_load_head") =>
      call'["egress"].req = 0

\* the first wire frame written after the failure carries the frames of
\* the failed write
FirstFrameResent ==
    (NothingSentSince /\ NotRefused /\ sent'.count = sent.count + 1) =>
      /\ sent'.pcm = FailedFrames
      /\ tail'["outputRing"] = errAt

ReadsWhileConnected ==
    (InRingRead("egress") \/ pc["egress"] = "o_got") => fd["egress"] = "open"

\* a step that moves the output ring's tail is a step of the connected
\* worker; across a step without a connection the tail stays and the head
\* does not go back
TailNeedsConnection ==
    /\ tail'["outputRing"] # tail["outputRing"] => fd["egress"] = "open"
    /\ (fd["egress"] # "open" /\ fd'["egress"] # "open" /\ driver = "ready") =>
         /\ tail'["outputRing"] = tail["outputRing"]
         /\ head'["outputRing"] >= head["outputRing"]
         /\ head'["outputRing"] - tail'["outputRing"] <= RING_CAPACITY

\* a WriteMix that finds the ring full while the worker has no connection
\* writes no frame: ring_write returns at its test of count
FullRingDropsAll ==
    (pc["ioOut"] = "w_load_tail" /\ pc'["ioOut"] # "w_load_tail"
       /\ fd["egress"] # "open"
       /\ head["outputRing"] - tail["outputRing"] = RING_CAPACITY) =>
      /\ call'["ioOut"].count = 0
      /\ call'["ioOut"].ret = 0
      /\ pc'["ioOut"] = "io_write_ret"
      /\ UNCHANGED <<samples, head, tail>>

\* C33: the egress worker reads the output ring only while it holds an
\* open connection: while it is connecting or in backoff the ring's tail
\* does not advance, so a producer that keeps writing fills the ring to
\* RING_CAPACITY and every later WriteMix frame is dropped until a
\* connection is made.
NoDrainWithoutConnection ==
    /\ []ReadsWhileConnected
    /\ [][TailNeedsConnection]_vars
    /\ [][FullRingDropsAll]_vars

\* the worker sleeps after a connect that failed, having never been
\* connected; the ring is full and a WriteMix has returned with all its
\* frames dropped
NoDrainWithoutConnectionWitness ==
    /\ pc["egress"] = "o_backoff"
    /\ fd["egress"] = "none"
    /\ tail["outputRing"] = 0
    /\ head["outputRing"] = RING_CAPACITY
    /\ IoReturned("ioOut")
    /\ call["ioOut"].req > 0
    /\ call["ioOut"].ret = 0
    /\ offered["outputRing"] > Len(accepted["outputRing"])

(***************************************************************************)
(* The descriptor of each worker, lines 199-215, 293-347 and 365-403.      *)
(***************************************************************************)
\* a worker holds one descriptor from the return of a successful
\* vsock_connect to its close(fd), and none anywhere else: not at the outer
\* loop's test, not in sleep(1), not after its exit
SocketOwned ==
    \A w \in Workers :
      /\ fd[w] \in {"none", "open"}
      /\ fd[w] = "open" <=>
           (Started(w) /\ pc[w] \notin {Outer(w), Backoff(w)} /\ ~Exited(w))

\* a descriptor is opened only by vsock_connect called with none held, and
\* closed only by the close(fd) after the inner loop, which always has one
\* to close
SocketSteps ==
    \A w \in Workers :
      /\ fd'[w] # fd[w] =>
           \/ /\ fd[w] = "none" /\ fd'[w] = "open"
              /\ pc[w] = Outer(w) /\ pc'[w] = Inner(w)
           \/ /\ fd[w] = "open" /\ fd'[w] = "none"
              /\ AtClose(w) /\ pc'[w] \in {Outer(w), Backoff(w)}
      /\ (AtClose(w) /\ pc'[w] # pc[w]) => (fd[w] = "open" /\ fd'[w] = "none")
      /\ (pc[w] = Outer(w) /\ pc'[w] # pc[w]) => fd[w] = "none"
      /\ (~Exited(w) /\ Exited(w)') => (fd[w] = "none" /\ fd'[w] = "none")

\* C34: each transport worker holds at most one open socket at any time:
\* every descriptor returned by a successful vsock_connect is closed
\* exactly once, before the next connect attempt and before the thread
\* exits, and a descriptor whose connect failed is closed inside
\* vsock_connect.
OneSocketPerWorker ==
    /\ []SocketOwned
    /\ [][SocketSteps]_vars

\* the egress worker has exited, after a connection that carried a wire
\* frame, one that failed in a write and a connect attempt that failed
OneSocketPerWorkerWitness ==
    /\ Exited("egress")
    /\ running = 0
    /\ fd["egress"] = "none"
    /\ sent.count >= 1
    /\ errAt >= 0

(***************************************************************************)
(* The IO-running flag with several clients, lines 1305-1337, 1053-1057.   *)
(***************************************************************************)
\* the flag is 1 exactly while some client has started IO on the device and
\* not stopped it
RunningIffClients ==
    \A dev \in Devices :
      (driver = "ready" /\ Followed(dev)) =>
        (DeviceIsRunning(dev) = 1 <=> ioClients[dev] # {})

\* a StartIO on a device whose IO is running leaves the anchor where it is
SecondStartKeepsAnchor ==
    \A dev \in Devices :
      (lastOp' = [op |-> "StartIO", dev |-> dev] /\ ioClients'[dev] # ioClients[dev]
         /\ ioClients[dev] # {} /\ ioRunning[dev] = 1) =>
        ticksAtZero'[dev] = ticksAtZero[dev]

\* C35: the device's IO-running flag (reported by DeviceIsRunning) is 1
\* exactly when at least one client has called StartIO on the device and
\* not yet StopIO, for every sequence of StartIO and StopIO calls by
\* several clients; a StartIO by a second client while IO is running does
\* not move the clock anchor.
RunningWhileClients ==
    /\ []RunningIffClients
    /\ [][SecondStartKeepsAnchor]_vars

(***************************************************************************)
(* The ring with head and tail kept in CounterBits bits: ring_write,       *)
(* lines 113-129, and ring_read, lines 132-148, in unsigned arithmetic.    *)
(* A slot holds the number of the frame written to it, counted from the    *)
(* first frame the ring took; wrap.written and wrap.read count the frames  *)
(* taken and handed out without wrapping.                                  *)
(***************************************************************************)
\* h - t without the wrap of unsigned subtraction
WrapSubSigned(a, b) == a - b

\* a - b on two counters
WrapSub(a, b) == (a - b) % CounterModulus

WrapAdd(a, b) == (a + b) % CounterModulus

\* uint64_t free = RING_CAPACITY - (h - t);
WrapFree(h, t) == WrapSub(WrapCapacity, WrapSub(h, t))

\* uint64_t avail = h - t;
WrapAvail(h, t) == WrapSub(h, t)

\* the slot of the i-th frame (from 0) of a copy that starts at counter c:
\* idx = c % RING_CAPACITY, first = RING_CAPACITY - idx frames go to idx.., 
\* the rest to slot 0..
WrapSlot(c, count, i) ==
    LET idx == c % WrapCapacity
        first == IF WrapCapacity - idx > count THEN count
                 ELSE WrapCapacity - idx
    IN IF i < first THEN idx + i ELSE i - first

\* bookkeeping: while a ring_available call runs, the value head - tail
\* takes after a store is added to those the call has seen
Observe(a, fill) ==
    IF a.pc = "tail" THEN [a EXCEPT !.seen = @ \cup {fill}] ELSE a

\* the loads of ring_write and its cap of count; it returns 0 before any
\* copy when nothing is free
WrapWriteLoad(req) ==
    /\ wrap.w.pc = "idle"
    /\ wrap.written + req <= MaxWrapFrames
    /\ LET h == wrap.head
           t == wrap.tail
           free == WrapFree(h, t)
           count == IF req > free THEN free ELSE req
       IN wrap' = IF count = 0 THEN wrap
                  ELSE [wrap EXCEPT !.w = [pc |-> "copy", h |-> h, t |-> t,
                                           count |-> count]]
    /\ UNCHANGED <<ringVars, running, driver, pc, call, buf, acc, fd,
                   histVars, clockVars, auxVarsButWrap>>

\* the two memcpy of ring_write and the store of head
WrapWriteStore ==
    /\ wrap.w.pc = "copy"
    /\ LET h == wrap.w.h
           count == wrap.w.count
           at == [i \in 0..(count - 1) |-> WrapSlot(h, count, i)]
       IN wrap' = [wrap EXCEPT
                     !.samples = [s \in 0..(WrapCapacity - 1) |->
                                    IF \E i \in 0..(count - 1) : at[i] = s
                                    THEN wrap.written + 1 +
                                         (CHOOSE i \in 0..(count - 1) : at[i] = s)
                                    ELSE wrap.samples[s]],
                     !.head = WrapAdd(h, count),
                     !.written = @ + count,
                     !.w = NoWrapCall,
                     !.a = Observe(@, wrap.written + count - wrap.read)]
    /\ UNCHANGED <<ringVars, running, driver, pc, call, buf, acc, fd,
                   histVars, clockVars, auxVarsButWrap>>

\* the loads of ring_read and its cap of count; it returns 0 before any
\* copy when nothing is available
WrapReadLoad(req) ==
    /\ wrap.r.pc = "idle"
    /\ LET h == wrap.head
           t == wrap.tail
           avail == WrapAvail(h, t)
           count == IF req > avail THEN avail ELSE req
       IN wrap' = IF count = 0 THEN [wrap EXCEPT !.got = <<>>]
                  ELSE [wrap EXCEPT !.r = [pc |-> "copy", h |-> h, t |-> t,
                                           count |-> count]]
    /\ UNCHANGED <<ringVars, running, driver, pc, call, buf, acc, fd,
                   histVars, clockVars, auxVarsButWrap>>

\* the two memcpy of ring_read and the store of tail
WrapReadStore ==
    /\ wrap.r.pc = "copy"
    /\ LET t == wrap.r.t
           count == wrap.r.count
       IN wrap' = [wrap EXCEPT
                     !.got = [i \in 1..count |->
                                wrap.samples[WrapSlot(t, count, i - 1)]],
                     !.tail = WrapAdd(t, count),
                     !.read = @ + count,
                     !.r = NoWrapCall,
                     !.a = Observe(@, wrap.written - wrap.read - count)]
    /\ UNCHANGED <<ringVars, running, driver, pc, call, buf, acc, fd,
                   histVars, clockVars, auxVarsButWrap>>

\* one producer and one consumer on the ring, each asking for up to a whole
\* ring of frames
WrapNext ==
    \/ \E req \in 1..WrapCapacity : WrapWriteLoad(req)
    \/ WrapWriteStore
    \/ \E req \in 1..WrapCapacity : WrapReadLoad(req)
    \/ WrapReadStore

SpecWrap == InitRings /\ [][WrapNext]_vars

\* the counts ring_write and ring_read compute from the counters as they
\* are, and from the counters a call in progress loaded
WrapCountsInRange ==
    /\ WrapAvail(wrap.head, wrap.tail) \in 0..WrapCapacity
    /\ WrapFree(wrap.head, wrap.tail) \in 0..WrapCapacity
    /\ WrapAvail(wrap.head, wrap.tail) = wrap.written - wrap.read
    /\ wrap.w.pc = "copy" =>
         /\ WrapFree(wrap.w.h, wrap.w.t) \in 1..WrapCapacity
         /\ wrap.w.count <= WrapCapacity - (wrap.written - wrap.read)
    /\ wrap.r.pc = "copy" =>
         /\ WrapAvail(wrap.r.h, wrap.r.t) \in 1..WrapCapacity
         /\ wrap.r.count <= wrap.written - wrap.read

\* the slot index goes on after the wrap as it would for counters that
\* never wrap
WrapSlotContinues ==
    /\ wrap.head % WrapCapacity = wrap.written % WrapCapacity
    /\ wrap.tail % WrapCapacity = wrap.read % WrapCapacity

\* every read hands out the frames that follow those handed out before, in
\* the order the ring took them; the frames not yet read are in their slots
WrapFifo ==
    /\ \A i \in 1..Len(wrap.got) :
         wrap.got[i] = wrap.read - Len(wrap.got) + i
    /\ \A k \in (wrap.read + 1)..wrap.written :
         wrap.samples[(k - 1) % WrapCapacity] = k

\* C36: the ring stays correct when head and tail wrap around their width:
\* RING_CAPACITY divides 2^w, so the free and available counts computed by
\* modular subtraction stay in 0..RING_CAPACITY, the slot index
\* head mod RING_CAPACITY goes on without a jump across the wrap, and the
\* bounds and FIFO order hold.
RingCorrectAcrossWrap ==
    /\ WrapCountsInRange
    /\ WrapSlotContinues
    /\ WrapFifo

\* head has wrapped and tail has not, frames written before and after the
\* wrap are in the ring, and the last read returned frames
RingCorrectAcrossWrapWitness ==
    /\ wrap.written > CounterModulus
    /\ wrap.read < CounterModulus
    /\ wrap.head < wrap.tail
    /\ Len(wrap.got) >= 2

(***************************************************************************)
(* ring_available, lines 106-110, called while the producer and the        *)
(* consumer run.                                                           *)
(***************************************************************************)
\* the thread that calls: the producer's or the consumer's between two of
\* its own ring calls, or a third one
AvailCallers == {"producer", "consumer", "other"}

\* the frames the ring takes while ring_available is called
MaxAvailFrames == 2 * WrapCapacity

\* the thread is inside ring_available
InAvailable(who) == wrap.a.pc = "tail" /\ wrap.a.who = who

\* uint64_t h = atomic_load_explicit(&rb->head, memory_order_acquire);
AvailLoadHead(who) ==
    /\ wrap.a.pc # "tail"
    /\ who = "producer" => wrap.w.pc = "idle"
    /\ who = "consumer" => wrap.r.pc = "idle"
    /\ wrap' = [wrap EXCEPT !.a = [pc |-> "tail", who |-> who,
                                   h |-> wrap.head, ret |-> 0,
                                   seen |-> {wrap.written - wrap.read}]]
    /\ UNCHANGED <<ringVars, running, driver, pc, call, buf, acc, fd,
                   histVars, clockVars, auxVarsButWrap>>

\* uint64_t t = atomic_load_explicit(&rb->tail, memory_order_relaxed);
\* return h - t;
AvailLoadTail ==
    /\ wrap.a.pc = "tail"
    /\ wrap' = [wrap EXCEPT !.a.pc = "done",
                            !.a.ret = WrapSub(wrap.a.h, wrap.tail)]
    /\ UNCHANGED <<ringVars, running, driver, pc, call, buf, acc, fd,
                   histVars, clockVars, auxVarsButWrap>>

\* the producer, the consumer and the calls of ring_available; a thread
\* that is inside ring_available starts no ring_write or ring_read
AvailNext ==
    \/ /\ ~InAvailable("producer")
       /\ \E req \in 1..WrapCapacity :
            wrap.written + req <= MaxAvailFrames /\ WrapWriteLoad(req)
    \/ WrapWriteStore
    \/ /\ ~InAvailable("consumer")
       /\ \E req \in 1..WrapCapacity : WrapReadLoad(req)
    \/ WrapReadStore
    \/ \E who \in AvailCallers : AvailLoadHead(who)
    \/ AvailLoadTail

SpecAvailable == InitRings /\ [][AvailNext]_vars

\* C37: ring_available, called from any thread while the producer and the
\* consumer run concurrently, returns a value in 0..RING_CAPACITY that
\* equals head - tail of some state the ring passed through during the
\* call.
AvailableIsSnapshot ==
    wrap.a.pc = "done" =>
      /\ wrap.a.ret \in 0..WrapCapacity
      /\ wrap.a.ret \in wrap.a.seen

MuteClear == \A dev \in Devices : mute[dev] = 0

\* the mute a worker loaded is 0, the gain it computed is the volume it
\* loaded, and every sample it converted was scaled by that volume
GainIsVolume ==
    \A w \in Workers :
      /\ gainLoc[w].mute = 0
      /\ pc[w] = GainMute(w) \/ gainLoc[w].gain = gainLoc[w].vol
      /\ InConversion(w) =>
           \A i \in 1..Len(scaled[w]) : scaled[w][i] = gainLoc[w].vol

\* the volume a worker loads is the stored volume scalar of its device
LoadsStoredVolume ==
    \A w \in Workers :
      gainLoc'[w] # gainLoc[w] =>
        \/ pc[w] = GainStart(w) /\ gainLoc'[w].vol = volume[DeviceOf(w)]
        \/ pc[w] = GainMute(w) /\ gainLoc'[w].vol = gainLoc[w].vol

\* C39: in every state reachable after driver_Initialize, outputMute and
\* inputMute are 0: no operation of the plug-in interface sets a mute flag,
\* so the effective gain applied by both workers always equals the stored
\* volume scalar (the one the worker loaded for the codec frame).
MuteAlwaysClear ==
    /\ [](driver = "ready" => MuteClear)
    /\ []GainIsVolume
    /\ [][LoadsStoredVolume]_vars

\* the host has set the volume to 0.25 and a worker has scaled samples of a
\* codec frame by it
MuteAlwaysClearWitness ==
    \E w \in Workers :
      /\ driver = "ready"
      /\ InConversion(w)
      /\ Len(scaled[w]) >= 1
      /\ gainLoc[w].vol = 250000
      /\ scaled[w][1] = 250000
      /\ volume[DeviceOf(w)] = 250000

====
